---- MODULE Spec2Model ----
(***************************************************************************)
(* Kemono EPUB Creator: the Chromium generator of                          *)
(* src/Chromium/EpubGenerator.js (first generator of the file): the        *)
(* basename sanitizer, the EpubPacker and the generateKemonoEpub run.      *)
(*                                                                         *)
(* Strings are sequences of one-character strings, so that concatenation,  *)
(* regular-expression replacement, truncation and case folding are         *)
(* computed as the code computes them.                                     *)
(***************************************************************************)
EXTENDS Integers, Sequences, FiniteSets, TLC

(***************************************************************************)
(* Bounds of the model                                                     *)
(***************************************************************************)
\* number of selected post stubs of one generateKemonoEpub run
MaxPosts == 3
\* number of EpubPacker calls of one free use of the packer
MaxOps == 4
\* number of selected stubs that come from one list page
StubsPerPage == 2
\* number of concurrent callers of ensureApiRateLimit
MaxCallers == 3
\* the last value of Date.now() the rate limiter is followed to
MaxClock == 2000
\* number of selected posts of one run of the Firefox generator
MaxFxPosts == 13
\* number of pieces of the markup given to sanitizeHtmlContent
MaxPieces == 4
\* number of loadPostsPage calls in flight at once
MaxLoads == 2
\* number of generateKemonoEpub runs of one page in flight at once
MaxRuns == 2

(***************************************************************************)
(* Characters and strings                                                  *)
(***************************************************************************)
UpperChars == <<"A","B","C","D","E","F","G","H","I","J","K","L","M",
                "N","O","P","Q","R","S","T","U","V","W","X","Y","Z">>

LowerChars == <<"a","b","c","d","e","f","g","h","i","j","k","l","m",
                "n","o","p","q","r","s","t","u","v","w","x","y","z">>

DigitChars == <<"0","1","2","3","4","5","6","7","8","9">>

Range(s) == {s[k] : k \in DOMAIN s}

\* /\s/
IsSpaceChar(c) == c \in {" ", "\t", "\n"}

\* [A-Za-z0-9._-]
SafeChars == Range(UpperChars) \cup Range(LowerChars) \cup Range(DigitChars) \cup {".", "_", "-"}

IsSafeChar(c) == c \in SafeChars

\* [._-]
IsEdgeChar(c) == c \in {".", "_", "-"}

\* [A-Z]
UpperSet == Range(UpperChars)

ToLowerChar(c) ==
  IF c \in UpperSet
    THEN LowerChars[CHOOSE k \in DOMAIN UpperChars : UpperChars[k] = c]
    ELSE c

\* String.prototype.toLowerCase
ToLowerCase(s) == [k \in DOMAIN s |-> ToLowerChar(s[k])]

RECURSIVE NatToString(_)
\* Number.prototype.toString for a natural number
NatToString(n) ==
  IF n < 10 THEN <<DigitChars[n + 1]>>
  ELSE NatToString(n \div 10) \o <<DigitChars[(n % 10) + 1]>>

\* String.prototype.padStart(2, '0')
PadStart2(s) == IF Len(s) < 2 THEN <<"0">> \o s ELSE s

\* String.prototype.substring(0, n)
Substring0(s, n) == IF Len(s) <= n THEN s ELSE SubSeq(s, 1, n)

\* String.prototype.startsWith
StartsWith(s, p) == Len(s) >= Len(p) /\ SubSeq(s, 1, Len(p)) = p

RECURSIVE ReplaceSpaceRuns(_)
\* name.replace(/\s+/g, "_")
ReplaceSpaceRuns(s) ==
  IF s = <<>> THEN <<>>
  ELSE IF IsSpaceChar(Head(s))
    THEN IF Len(s) > 1 /\ IsSpaceChar(s[2])
           THEN ReplaceSpaceRuns(Tail(s))
           ELSE <<"_">> \o ReplaceSpaceRuns(Tail(s))
    ELSE <<Head(s)>> \o ReplaceSpaceRuns(Tail(s))

\* name.replace(/[^A-Za-z0-9._-]/g, "_")
ReplaceUnsafeChars(s) == [k \in DOMAIN s |-> IF IsSafeChar(s[k]) THEN s[k] ELSE "_"]

RECURSIVE CollapseUnderscores(_)
\* name.replace(/_+/g, "_")
CollapseUnderscores(s) ==
  IF s = <<>> THEN <<>>
  ELSE IF Head(s) = "_" /\ Len(s) > 1 /\ s[2] = "_"
    THEN CollapseUnderscores(Tail(s))
    ELSE <<Head(s)>> \o CollapseUnderscores(Tail(s))

RECURSIVE TrimLeadingEdge(_)
TrimLeadingEdge(s) ==
  IF s # <<>> /\ IsEdgeChar(Head(s)) THEN TrimLeadingEdge(Tail(s)) ELSE s

RECURSIVE TrimTrailingEdge(_)
TrimTrailingEdge(s) ==
  IF s # <<>> /\ IsEdgeChar(s[Len(s)])
    THEN TrimTrailingEdge(SubSeq(s, 1, Len(s) - 1)) ELSE s

\* name.replace(/^[._-]+|[._-]+$/g, "")
TrimEdges(s) == TrimTrailingEdge(TrimLeadingEdge(s))

MaxBasenameLen == 120

Str_chapter == <<"c","h","a","p","t","e","r">>

\* sanitizeBasenameForXhtmlStrict
sanitizeBasenameForXhtmlStrict(basename) ==
  IF basename = <<>> THEN Str_chapter
  ELSE LET n1 == ReplaceSpaceRuns(basename)
           n2 == ReplaceUnsafeChars(n1)
           n3 == CollapseUnderscores(n2)
           n4 == TrimEdges(n3)
           n5 == IF n4 = <<>> THEN Str_chapter ELSE n4
       IN  Substring0(n5, MaxBasenameLen)

(***************************************************************************)
(* String constants of the generator and the packer                        *)
(***************************************************************************)
Str_css == <<"c","s","s">>
Str_cover_image == <<"c","o","v","e","r","-","i","m","a","g","e">>
Str_cover_xhtml == <<"c","o","v","e","r","-","x","h","t","m","l">>
Str_toc == <<"t","o","c">>
Str_ch_ == <<"c","h","-">>
Str_img_ == <<"i","m","g","-">>
Str_Text_ == <<"T","e","x","t","/">>
Str_Images_ == <<"I","m","a","g","e","s","/">>
Str_xhtml == <<".","x","h","t","m","l">>
Str_Chapter_ == <<"C","h","a","p","t","e","r","_">>
Str_Untitled == <<"U","n","t","i","t","l","e","d"," ","P","o","s","t">>
Str_styles_href == <<"S","t","y","l","e","s","/","s","t","y","l","e","s","h","e","e","t",".","c","s","s">>
Str_cover_file == <<"c","o","v","e","r",".","x","h","t","m","l">>
Str_toc_file == <<"t","o","c",".","x","h","t","m","l">>
Str_cover_dot == <<"c","o","v","e","r",".">>
Str_inline_ == <<"i","n","l","i","n","e","_">>
Str_OEBPS_ == <<"O","E","B","P","S","/">>

XhtmlType == "application/xhtml+xml"

(***************************************************************************)
(* Array helpers                                                           *)
(***************************************************************************)
\* Array.prototype.includes
Includes(arr, x) == \E k \in DOMAIN arr : arr[k] = x

\* Array.prototype.indexOf (0-based, first occurrence; the element is present)
IndexOf(arr, x) == (CHOOSE k \in DOMAIN arr : arr[k] = x /\ \A j \in 1..(k - 1) : arr[j] # x) - 1

\* arr.splice(at, 0, x) with a 0-based position
SpliceIn(arr, at, x) == SubSeq(arr, 1, at) \o <<x>> \o SubSeq(arr, at + 1, Len(arr))

\* arr.unshift(x)
Unshift(arr, x) == <<x>> \o arr

RECURSIVE SelectIn(_, _)
\* the elements of arr that are in the set S, in the order of arr
SelectIn(arr, S) ==
  IF arr = <<>> THEN <<>>
  ELSE IF Head(arr) \in S THEN <<Head(arr)>> \o SelectIn(Tail(arr), S)
       ELSE SelectIn(Tail(arr), S)

(***************************************************************************)
(* EpubPacker (first EpubPacker class of src/Chromium/EpubGenerator.js)    *)
(***************************************************************************)
Path_mimetype == <<"m","i","m","e","t","y","p","e">>
Path_OEBPS == Str_OEBPS_
Path_Text == Str_OEBPS_ \o Str_Text_
Path_Images == Str_OEBPS_ \o Str_Images_
Path_Styles == Str_OEBPS_ \o <<"S","t","y","l","e","s","/">>
Path_META == <<"M","E","T","A","-","I","N","F","/">>
Path_container == Path_META \o <<"c","o","n","t","a","i","n","e","r",".","x","m","l">>
Path_opf == Str_OEBPS_ \o <<"c","o","n","t","e","n","t",".","o","p","f">>
Path_ncx == Str_OEBPS_ \o <<"t","o","c",".","n","c","x">>

\* JSZip file(name, data): a new name is appended to the entries, an existing
\* name keeps its place and has its data replaced
ZipFile(entries, path) == IF Includes(entries, path) THEN entries ELSE Append(entries, path)

ManifestItem(id, href, mediaType, properties) ==
  [id |-> id, href |-> href, mediaType |-> mediaType, properties |-> properties]

\* new EpubPacker(metadata, JSZipClass)
NewEpubPacker ==
  [ zip            |-> <<Path_mimetype, Path_OEBPS, Path_Text, Path_Images, Path_Styles>>,
    manifestItems  |-> <<>>,
    spineOrder     |-> <<>>,
    tocEntries     |-> <<>>,
    fileCounter    |-> 0,
    imageIdCounter |-> 0,
    usedImageIds   |-> {},
    usedImagePaths |-> {},
    coverImageId   |-> <<>> ]

\* EpubPacker.addStylesheet
addStylesheet(P) ==
  [P EXCEPT !.zip = ZipFile(@, Str_OEBPS_ \o Str_styles_href),
            !.manifestItems = Append(@, ManifestItem(Str_css, Str_styles_href, "text/css", ""))]

\* EpubPacker.addCoverImage
addCoverImage(P, fileNameInEpub, mimeType) ==
  LET imagePath == Str_Images_ \o fileNameInEpub
  IN  [P EXCEPT
        !.zip = ZipFile(ZipFile(@, Path_Images \o fileNameInEpub), Path_Text \o Str_cover_file),
        !.manifestItems = @ \o << ManifestItem(Str_cover_image, imagePath, mimeType, "cover-image"),
                                  ManifestItem(Str_cover_xhtml, Str_Text_ \o Str_cover_file, XhtmlType, "") >>,
        !.coverImageId = Str_cover_image,
        !.spineOrder = Unshift(@, Str_cover_xhtml)]

RECURSIVE NextImageCounter(_, _)
\* the counter value whose id img-<n> is the first one not in usedImageIds
NextImageCounter(n, used) ==
  IF (Str_img_ \o NatToString(n)) \in used THEN NextImageCounter(n + 1, used) ELSE n

addImageToManifest_NoSkip(P, imageInfo) ==
  LET n == NextImageCounter(P.imageIdCounter, P.usedImageIds)
      imageId == Str_img_ \o NatToString(n)
  IN  [P EXCEPT
        !.usedImagePaths = @ \cup {imageInfo.fileNameInEpub},
        !.imageIdCounter = n + 1,
        !.usedImageIds = @ \cup {imageId},
        !.zip = ZipFile(@, Path_Images \o imageInfo.fileNameInEpub),
        !.manifestItems = Append(@, ManifestItem(imageId, Str_Images_ \o imageInfo.fileNameInEpub,
                                                 imageInfo.mimeType, ""))]

\* EpubPacker.addImageToManifest
addImageToManifest(P, imageInfo) ==
  IF imageInfo.fileNameInEpub \in P.usedImagePaths THEN P
  ELSE LET n == NextImageCounter(P.imageIdCounter, P.usedImageIds)
           imageId == Str_img_ \o NatToString(n)
       IN  [P EXCEPT
             !.usedImagePaths = @ \cup {imageInfo.fileNameInEpub},
             !.imageIdCounter = n + 1,
             !.usedImageIds = @ \cup {imageId},
             !.zip = ZipFile(@, Path_Images \o imageInfo.fileNameInEpub),
             !.manifestItems = Append(@, ManifestItem(imageId, Str_Images_ \o imageInfo.fileNameInEpub,
                                                      imageInfo.mimeType, ""))]

\* chapterId.replace(/^ch-/, "")
StripChPrefix(chapterId) ==
  IF StartsWith(chapterId, Str_ch_) THEN SubSeq(chapterId, Len(Str_ch_) + 1, Len(chapterId))
  ELSE chapterId

\* the chapter is left out of a spine that starts with the cover page
ChapterSpine_NotAfterCover(spineOrder, chapterId) ==
  IF Includes(spineOrder, Str_toc)
    THEN SpliceIn(spineOrder, IndexOf(spineOrder, Str_toc) + 1, chapterId)
  ELSE IF Includes(spineOrder, Str_cover_xhtml)
    THEN spineOrder
  ELSE Append(spineOrder, chapterId)

\* the spine insertion of EpubPacker.addChapter
ChapterSpine(spineOrder, chapterId) ==
  IF Includes(spineOrder, Str_toc)
    THEN SpliceIn(spineOrder, IndexOf(spineOrder, Str_toc) + 1, chapterId)
  ELSE IF Includes(spineOrder, Str_cover_xhtml)
    THEN SpliceIn(spineOrder, IndexOf(spineOrder, Str_cover_xhtml) + 1, chapterId)
  ELSE Append(spineOrder, chapterId)

\* EpubPacker.addChapter
addChapter(P, title, chapterId) ==
  LET fileName == StripChPrefix(chapterId) \o Str_xhtml
  IN  [P EXCEPT
        !.fileCounter = @ + 1,
        !.zip = ZipFile(@, Path_Text \o fileName),
        !.manifestItems = Append(@, ManifestItem(chapterId, Str_Text_ \o fileName, XhtmlType, "")),
        !.spineOrder = ChapterSpine(@, chapterId)]

\* the contents page put first whether or not there is a cover
TocSpine_Unshift(spineOrder) == Unshift(spineOrder, Str_toc)

\* the spine insertion of EpubPacker.addTableOfContents
TocSpine(spineOrder) ==
  IF Includes(spineOrder, Str_cover_xhtml)
    THEN SpliceIn(spineOrder, IndexOf(spineOrder, Str_cover_xhtml) + 1, Str_toc)
    ELSE Unshift(spineOrder, Str_toc)

\* EpubPacker.addTableOfContents
addTableOfContents(P, posts) ==
  [P EXCEPT
    !.zip = ZipFile(@, Path_Text \o Str_toc_file),
    !.manifestItems = Append(@, ManifestItem(Str_toc, Str_Text_ \o Str_toc_file, XhtmlType, "nav")),
    !.spineOrder = TocSpine(@),
    !.tocEntries = [k \in DOMAIN posts |->
                      [rawTitle |-> posts[k].title,
                       href |-> Str_Text_ \o posts[k].filename \o Str_xhtml]]]

\* EpubPacker.addContainerXml
addContainerXml(P) == [P EXCEPT !.zip = ZipFile(ZipFile(@, Path_META), Path_container)]

\* EpubPacker.packToBlob: the entries written before zip.generateAsync
packToBlob(P) ==
  [addContainerXml(P) EXCEPT !.zip = ZipFile(ZipFile(@, Path_opf), Path_ncx)]

(***************************************************************************)
(* KemonoContentParser: URLs and processPostImagesAndContent               *)
(*                                                                         *)
(* An attribute value (img src, a href) is a record                        *)
(*   [kind, segs, q]                                                       *)
(* kind "http"  : https://<segs[1]>/<segs[2]>/...                          *)
(* kind "proto" : //<segs[1]>/<segs[2]>/...                                *)
(* kind "root"  : /<segs[1]>/<segs[2]>/...                                 *)
(* kind "rel"   : <segs[1]>/<segs[2]>/...                                  *)
(* kind "none"  : the attribute is absent or empty                         *)
(* q is TRUE when the value carries a ?query or a #fragment.  A segment is *)
(* a sequence of strings, two values are the same string exactly when the  *)
(* records are equal.                                                      *)
(***************************************************************************)
Seg_site == <<"kemono.cr">>
Seg_data == <<"data">>
Seg_dotdot == <<"..">>
Seg_Images == <<"Images">>

Attr(kind, segs, q) == [kind |-> kind, segs |-> segs, q |-> q]

NoAttr == Attr("none", <<>>, FALSE)

\* KEMONO_SITE_BASE_URL = "https://kemono.cr"
KEMONO_SITE_BASE_URL == <<Seg_site>>

\* KEMONO_DATA_BASE_URL = "https://kemono.cr/data"
KEMONO_DATA_BASE_URL == <<Seg_site, Seg_data>>

RECURSIVE RemoveDotSegments(_)
\* the path normalisation of new URL(): a ".." segment removes the segment
\* before it (never the host)
RemoveDotSegments(segs) ==
  IF \E k \in 2..Len(segs) : segs[k] = Seg_dotdot
    THEN LET k == CHOOSE j \in 2..Len(segs) :
                    segs[j] = Seg_dotdot /\ \A m \in 2..(j - 1) : segs[m] # Seg_dotdot
         IN  IF k = 2 THEN RemoveDotSegments(<<segs[1]>> \o SubSeq(segs, 3, Len(segs)))
             ELSE RemoveDotSegments(SubSeq(segs, 1, k - 2) \o SubSeq(segs, k + 1, Len(segs)))
    ELSE segs

\* KemonoContentParser._normalizeUrl (the value is not empty)
normalizeUrl(originalSrc) ==
  LET absSegs ==
        IF originalSrc.kind = "proto" THEN originalSrc.segs
        ELSE IF originalSrc.kind = "root"
          THEN IF Len(originalSrc.segs) >= 2 /\ originalSrc.segs[1] = Seg_data
                 THEN KEMONO_DATA_BASE_URL \o originalSrc.segs
                 ELSE KEMONO_SITE_BASE_URL \o originalSrc.segs
        ELSE IF originalSrc.kind = "rel" THEN KEMONO_SITE_BASE_URL \o originalSrc.segs
        ELSE originalSrc.segs
  IN  IF originalSrc.q THEN Attr("http", RemoveDotSegments(absSegs), FALSE)
      ELSE Attr("http", absSegs, FALSE)

\* the bodies a fetch of an image URL can answer with: a transport failure,
\* a JPEG, a WebP, or bytes that are no image
FetchOutcomes == {"fail", "image/jpeg", "image/webp", "text/html"}

Ext_jpg == <<"j","p","g">>
Ext_png == <<"p","n","g">>

\* processImageBlob: pass-through of the archive formats, PNG re-encoding of
\* the others, an exception when createImageBitmap cannot decode the bytes
processImageBlob(blobType) ==
  IF blobType = "image/jpeg" THEN [ok |-> TRUE, mimeType |-> "image/jpeg", extension |-> Ext_jpg]
  ELSE IF blobType = "image/png" THEN [ok |-> TRUE, mimeType |-> "image/png", extension |-> Ext_png]
  ELSE IF blobType = "image/webp" THEN [ok |-> TRUE, mimeType |-> "image/png", extension |-> Ext_png]
  ELSE [ok |-> FALSE, mimeType |-> "", extension |-> <<>>]

\* [\/\\?%*:|"<>]
IsFilenameUnsafe(c) == c \in {"/", "\\", "?", "%", "*", ":", "|", "\"", "<", ">"}

MaxFilenameLen == 200

\* sanitizeFilename
sanitizeFilename(filename) ==
  Substring0(CollapseUnderscores([k \in DOMAIN filename |->
                IF IsFilenameUnsafe(filename[k]) THEN "_" ELSE filename[k]]), MaxFilenameLen)

\* `inline_${postData.id}_${i}.${extension}`
InlineName(postId, i, extension) ==
  sanitizeFilename(Str_inline_ \o postId \o <<"_">> \o NatToString(i) \o <<".">> \o extension)

\* `../Images/${fileNameInEpub}`
UpImagesRef(fileNameInEpub) == Attr("rel", <<Seg_dotdot, Seg_Images, fileNameInEpub>>, FALSE)

\* `Images/${fileNameInEpub}`
ImagesRef(fileNameInEpub) == Attr("rel", <<Seg_Images, fileNameInEpub>>, FALSE)

\* the file name numbered by the images packaged so far instead of by the
\* index of the img element
ImgStep_CountIndex(st, postId, k, i, outcome) ==
  LET img == st.doc[k]
      absoluteSrc == normalizeUrl(img.val)
      enc == processImageBlob(outcome)
      fileNameInEpub == InlineName(postId, Len(st.imagesToPackage), enc.extension)
  IN  IF img.val = NoAttr THEN st
      ELSE IF outcome = "fail" \/ ~enc.ok
        THEN [st EXCEPT !.fetched = Append(@, absoluteSrc),
                        !.doc[k].unavailable = TRUE]
      ELSE [st EXCEPT !.fetched = Append(@, absoluteSrc),
                      !.imagesToPackage = Append(@, [originalUrl |-> absoluteSrc,
                                                     fileNameInEpub |-> fileNameInEpub,
                                                     localPathInEpub |-> ImagesRef(fileNameInEpub),
                                                     mimeType |-> enc.mimeType]),
                      !.doc[k].val = UpImagesRef(fileNameInEpub)]

\* one img element of the loop of processPostImagesAndContent: st is the loop
\* state (doc, imagesToPackage, fetched), k the element's place in the
\* document, i its index among the img elements, outcome what its fetch answers
ImgStep(st, postId, k, i, outcome) ==
  LET img == st.doc[k]
      absoluteSrc == normalizeUrl(img.val)
      enc == processImageBlob(outcome)
      fileNameInEpub == InlineName(postId, i, enc.extension)
  IN  IF img.val = NoAttr THEN st
      ELSE IF outcome = "fail"
        THEN [st EXCEPT !.fetched = Append(@, absoluteSrc),
                        !.doc[k].unavailable = TRUE]
      ELSE IF ~enc.ok
        THEN [st EXCEPT !.fetched = Append(@, absoluteSrc),
                        !.doc[k].unavailable = TRUE]
      ELSE [st EXCEPT !.fetched = Append(@, absoluteSrc),
                      !.imagesToPackage = Append(@, [originalUrl |-> absoluteSrc,
                                                     fileNameInEpub |-> fileNameInEpub,
                                                     localPathInEpub |-> ImagesRef(fileNameInEpub),
                                                     mimeType |-> enc.mimeType]),
                      !.doc[k].val = UpImagesRef(fileNameInEpub)]

RECURSIVE ImgLoop(_, _, _, _, _)
\* the loop over imgElements: outcomes[i + 1] is the answer to the fetch of
\* the img element of index i
ImgLoop(st, postId, outcomes, k, i) ==
  IF k > Len(st.doc) THEN st
  ELSE IF st.doc[k].tag = "img"
    THEN ImgLoop(ImgStep(st, postId, k, i, outcomes[i + 1]), postId, outcomes, k + 1, i + 1)
    ELSE ImgLoop(st, postId, outcomes, k + 1, i)

\* imgInfo.originalUrl.replace(KEMONO_SITE_BASE_URL, "")
\*                    .replace(KEMONO_DATA_BASE_URL.replace("https://", ""), "")
PartialPath(url) ==
  IF url.segs[1] = Seg_site
    THEN Attr("root", Tail(url.segs), FALSE)
  ELSE IF Len(url.segs) >= 2 /\ Len(url.segs[1]) > 1
          /\ url.segs[1][Len(url.segs[1])] = "kemono.cr" /\ url.segs[2] = Seg_data
    THEN Attr("http", <<SubSeq(url.segs[1], 1, Len(url.segs[1]) - 1)>>
                        \o SubSeq(url.segs, 3, Len(url.segs)), FALSE)
  ELSE url

RECURSIVE UrlToLocalMap(_)
\* the urlToLocalMap of _rewriteAllImageReferences, as the sequence of its
\* set() calls: a later call replaces an earlier one for the same key
UrlToLocalMap(imagesToPackage) ==
  IF imagesToPackage = <<>> THEN <<>>
  ELSE LET imgInfo == imagesToPackage[Len(imagesToPackage)]
           partialPath == PartialPath(imgInfo.originalUrl)
       IN  UrlToLocalMap(SubSeq(imagesToPackage, 1, Len(imagesToPackage) - 1))
             \o <<[key |-> imgInfo.originalUrl, value |-> imgInfo.localPathInEpub]>>
             \o (IF partialPath.kind = "root" /\ partialPath.segs = <<>> THEN <<>>
                 ELSE <<[key |-> partialPath, value |-> imgInfo.localPathInEpub]>>)

\* Map.prototype.has
MapHas(map, key) == \E k \in DOMAIN map : map[k].key = key

\* Map.prototype.get (the key is present)
MapGet(map, key) ==
  map[CHOOSE k \in DOMAIN map : map[k].key = key /\ \A j \in (k + 1)..Len(map) : map[j].key # key].value

\* rewriteAttr of _rewriteAllImageReferences
rewriteAttr(val, map) ==
  IF val = NoAttr THEN val
  ELSE LET absVal == normalizeUrl(val)
       IN  IF MapHas(map, absVal) THEN MapGet(map, absVal)
           ELSE IF MapHas(map, val) THEN MapGet(map, val)
           ELSE val

\* KemonoContentParser._rewriteAllImageReferences
rewriteAllImageReferences(doc, imagesToPackage) ==
  LET map == UrlToLocalMap(imagesToPackage)
  IN  [k \in DOMAIN doc |-> [doc[k] EXCEPT !.val = rewriteAttr(@, map)]]

\* the number of img elements of a document
RECURSIVE NumImgs(_)
NumImgs(doc) ==
  IF doc = <<>> THEN 0
  ELSE (IF Head(doc).tag = "img" THEN 1 ELSE 0) + NumImgs(Tail(doc))

\* KemonoContentParser.processPostImagesAndContent: postData is [id, content],
\* content the img and a elements of the post's markup in document order
processPostImagesAndContent(postData, outcomes) ==
  LET st == ImgLoop([doc |-> postData.content, imagesToPackage |-> <<>>, fetched |-> <<>>],
                    postData.id, outcomes, 1, 0)
  IN  [updatedHtml |-> rewriteAllImageReferences(st.doc, st.imagesToPackage),
       imagesToPackage |-> st.imagesToPackage,
       fetched |-> st.fetched]

(***************************************************************************)
(* State                                                                   *)
(***************************************************************************)
VARIABLES
  pc,                \* position of the run, or "api" / "normalize" / "normalized"
  selectedPostStubs, \* generateKemonoEpub: the selected stubs, in the caller's order
  coverImageUrl,     \* options.coverImageUrl is set
  idx,               \* the loop variable i of the per-post loop
  packer,            \* the EpubPacker object
  usedFilenames,     \* the lower-cased chapter basenames used so far
  processedPosts,    \* [title, id, filename] of every chapter added
  postCache,         \* parser.postCache: the cached post details
  bases,             \* history: sanitizeBasenameForXhtmlStrict of every chapter added
  chapters,          \* history: the chapterId of every addChapter call, in call order
  coverFailed,       \* history: the fetch or the encoding of the cover failed
  failedPost,        \* history: 1-based place of the post whose fetch failed, or 0
  downloaded,        \* SaverLib(epubBlob, fileName) was called
  packed,            \* history: packToBlob was called
  lastCall,          \* history: the last EpubPacker call, [op, changed]
  ops,               \* history: the EpubPacker calls made directly, in call order
  npost,             \* processPostImagesAndContent: its argument postData
  noutcomes,         \* what the fetch of each img element answered
  nresult,           \* what processPostImagesAndContent returned
  detailRequests,    \* history: the post ids the detail endpoint was asked for, in order
  bulkRequests,      \* history: the offsets the list endpoint was asked for, in order
  prefetched,        \* history: the ids in postCache when the bulk prefetch ended
  chapterHtml,       \* history: the htmlContent of every addChapter call, in call order
  lastArg,           \* history: fileNameInEpub of the last direct addImageToManifest call
  now,               \* Date.now()
  lastApiCallTime,   \* the rate limiter's lastApiCallTime
  apiQueue,          \* the rate limiter's promise chain: the callers whose body is pending
  callers,           \* the callers of ensureApiRateLimit: [pc, due]
  released,          \* history: the times at which callers were released, in order
  fxPc,              \* Firefox generateKemonoEpub: position of the run
  fxN,               \* Firefox: selectedPostStubs.length
  fxI,               \* Firefox: the loop variable i
  fxPacker,          \* Firefox: the EpubPacker object
  fxCurrent,         \* Firefox: currentProgress
  fxProgress,        \* history: the percentages passed to progressCallback, in order
  htmlString,        \* sanitizeHtmlContent: its argument
  sanitizedRuns,     \* the results of the successive sanitizeHtmlContent calls, in order
  page,              \* the page: the state of its script and of its controls
  loads,             \* the loadPostsPage calls in flight
  runs,              \* the generateKemonoEpub runs started from the page, in flight
  fetched            \* history: the last fetchPostFullData call, its answer and its outcome

histVars == <<detailRequests, bulkRequests, prefetched, chapterHtml, lastArg>>

limiterVars == <<now, lastApiCallTime, apiQueue, callers, released>>

fxVars == <<fxPc, fxN, fxI, fxPacker, fxCurrent, fxProgress>>

sanVars == <<htmlString, sanitizedRuns>>

uiVars == <<page, loads, runs>>

parserVars == <<fetched>>

laterVars == <<uiVars, parserVars>>

otherVars == <<sanVars, laterVars>>

vars == <<pc, selectedPostStubs, coverImageUrl, idx, packer, usedFilenames, processedPosts,
          postCache, bases, chapters, coverFailed, failedPost, downloaded, packed, lastCall,
          ops, npost, noutcomes, nresult, histVars, limiterVars, fxVars, otherVars>>

\* no request made, no chapter added
HistoryEmpty ==
  /\ detailRequests = <<>>
  /\ bulkRequests = <<>>
  /\ prefetched = {}
  /\ chapterHtml = <<>>
  /\ lastArg = <<>>

\* the rate limiter is not part of the run
LimiterUnused ==
  /\ now = 0
  /\ lastApiCallTime = 0
  /\ apiQueue = <<>>
  /\ callers = <<>>
  /\ released = <<>>

\* the Firefox generator is not part of the run
FirefoxUnused ==
  /\ fxPc = "off"
  /\ fxN = 0
  /\ fxI = 0
  /\ fxPacker = <<>>
  /\ fxCurrent = <<>>
  /\ fxProgress = <<>>

SanitizerUnused ==
  /\ htmlString = <<>>
  /\ sanitizedRuns = <<>>

\* no page is open
UiUnused ==
  /\ page = <<>>
  /\ loads = <<>>
  /\ runs = <<>>

ParserUnused ==
  /\ fetched = <<>>

LaterUnused ==
  /\ UiUnused
  /\ ParserUnused

OthersUnused ==
  /\ SanitizerUnused
  /\ LaterUnused

NoCall == [op |-> "none", changed |-> FALSE]

Call(op, before, after) == [op |-> op, changed |-> before # after]

EmptyResult == [updatedHtml |-> <<>>, imagesToPackage |-> <<>>, fetched |-> <<>>]

EmptyPost == [id |-> <<>>, title |-> <<>>, content |-> <<>>]

(***************************************************************************)
(* Inputs                                                                  *)
(***************************************************************************)
\* the post titles a detail response is drawn from: "Ch 1!!", "ch 1??",
\* "toc", "cover" and the empty title
TitlePool ==
  { <<"C","h"," ","1","!","!">>, <<"c","h"," ","1","?","?">>,
    <<"t","o","c">>, <<"c","o","v","e","r">>, <<>> }

Img(val) == [tag |-> "img", val |-> val, unavailable |-> FALSE]

Anchor(val) == [tag |-> "a", val |-> val, unavailable |-> FALSE]

\* https://kemono.cr/a.png
Url_a == Attr("http", <<Seg_site, <<"a.png">>>>, FALSE)
\* /a.png
Url_a_root == Attr("root", <<<<"a.png">>>>, FALSE)
\* //n1.kemono.cr/data/b.jpg?f=b.jpg
Url_b == Attr("proto", <<<<"n1.", "kemono.cr">>, Seg_data, <<"b.jpg">>>>, TRUE)
\* https://n1.kemono.cr/data/b.jpg
Url_b_http == Attr("http", <<<<"n1.", "kemono.cr">>, Seg_data, <<"b.jpg">>>>, FALSE)

\* the markup of the posts of a run
RunContents == { <<Img(Url_a)>> }

\* what the image fetches of a run answer
RunFetchOutcomes == {"fail", "image/webp"}

\* what the cover fetch of a run answers
RunCoverOutcomes == {"fail", "text/html", "image/jpeg"}

\* the id of the k-th selected post
PostId(k) == NatToString(k)

POSTS_PER_PAGE_FOR_LIST == 50

\* a stub of fetchPostListPage: no content, originalOffset is the offset of
\* the list page it came from
ListStub(k) ==
  [id |-> PostId(k), title |-> <<>>, hasContent |-> FALSE, content |-> <<>>,
   hasOffset |-> TRUE,
   originalOffset |-> ((k - 1) \div StubsPerPage) * POSTS_PER_PAGE_FOR_LIST]

\* a stub that carries its content and no originalOffset (the single-post
\* caller passes the whole post)
FullStub(k, title, content) ==
  [id |-> PostId(k), title |-> title, hasContent |-> TRUE, content |-> content,
   hasOffset |-> FALSE, originalOffset |-> 0]

Selections ==
  { [k \in 1..n |-> ListStub(k)] : n \in 0..MaxPosts }
    \cup { <<FullStub(1, t, c)>> : t \in TitlePool \ {<<>>}, c \in RunContents }

(***************************************************************************)
(* generateKemonoEpub                                                      *)
(***************************************************************************)
RECURSIVE SeedCache(_)
\* selectedPostStubs.forEach(stub => { if (stub.content) postCache.set(...) })
SeedCache(stubs) ==
  IF stubs = <<>> THEN {}
  ELSE (IF Head(stubs).hasContent
          THEN {[id |-> Head(stubs).id, title |-> Head(stubs).title, content |-> Head(stubs).content]}
          ELSE {}) \cup SeedCache(Tail(stubs))

\* selectedPostStubs.filter(s => !s.content)
PostsNeedingFetch(stubs) == SelectSeq(stubs, LAMBDA st : ~st.hasContent)

\* the offsetsToFetch of prepareForBulkFetch: the offset of every stub and the
\* offset of the page before it
OffsetsToFetch(stubs) ==
  LET own == {stubs[k].originalOffset : k \in {j \in DOMAIN stubs : stubs[j].hasOffset}}
  IN  own \cup {o - POSTS_PER_PAGE_FOR_LIST : o \in {x \in own : x - POSTS_PER_PAGE_FOR_LIST >= 0}}

\* postCache.set(String(fullPost.id), fullPost) for every post of a page
CacheSetAll(cache, posts) ==
  {p \in cache : \A q \in posts : q.id # p.id} \cup posts

\* what the list page at an offset can answer: a failed request, or an
\* array holding the full posts of some of the stubs of that page
PageResponses(stubs, offset, titles, contents) ==
  LET onPage == {k \in DOMAIN stubs : stubs[k].hasOffset /\ stubs[k].originalOffset = offset}
  IN  {[ok |-> FALSE, posts |-> {}]} \cup
      UNION { { [ok |-> TRUE,
                 posts |-> {[id |-> stubs[k].id, title |-> f[k][1], content |-> f[k][2]] : k \in S}]
                : f \in [S -> titles \X contents] }
              : S \in SUBSET onPage }

RECURSIVE PageResponseMaps(_, _, _, _)
\* one answer for every offset of the bulk prefetch
PageResponseMaps(stubs, offsets, titles, contents) ==
  IF offsets = {} THEN { [o \in {} |-> [ok |-> FALSE, posts |-> {}]] }
  ELSE LET offset == CHOOSE o \in offsets : TRUE
       IN  { [o \in offsets |-> IF o = offset THEN r ELSE f[o]] :
               f \in PageResponseMaps(stubs, offsets \ {offset}, titles, contents),
               r \in PageResponses(stubs, offset, titles, contents) }

RECURSIVE BulkLoop(_, _, _)
\* the loop of prepareForBulkFetch over the sorted offsets: a failed page is
\* logged and the loop goes on
BulkLoop(cache, offsets, responses) ==
  IF offsets = {} THEN cache
  ELSE LET offset == CHOOSE o \in offsets : \A x \in offsets : o <= x
           r == responses[offset]
       IN  BulkLoop(IF r.ok THEN CacheSetAll(cache, r.posts) ELSE cache,
                    offsets \ {offset}, responses)

RECURSIVE BulkAttempts(_, _)
\* the list-page requests of that loop, in the order they are made: the
\* try/catch is inside the loop, so every offset is asked for
BulkAttempts(offsets, responses) ==
  IF offsets = {} THEN <<>>
  ELSE LET offset == CHOOSE o \in offsets : \A x \in offsets : o <= x
       IN  <<offset>> \o BulkAttempts(offsets \ {offset}, responses)

\* the keys of postCache
CacheIds(cache) == {p.id : p \in cache}

CacheHas_Never(cache, id) == FALSE

\* postCache.has(postId)
CacheHas(cache, id) == \E p \in cache : p.id = id

CacheGet(cache, id) == CHOOSE p \in cache : p.id = id

\* the check without the case folding of the candidate
FilenameTaken_CaseSensitive(candidate, used) == candidate \in used

\* usedFilenames.has(candidate.toLowerCase())
FilenameTaken(candidate, used) == ToLowerCase(candidate) \in used

RECURSIVE UniqueBasename(_, _, _)
\* the while loop of the filename generation: the first of baseStrict,
\* baseStrict_01, baseStrict_02, ... that is not taken
UniqueBasename(baseStrict, counter, used) ==
  LET candidate == IF counter = 0 THEN baseStrict
                   ELSE baseStrict \o <<"_">> \o PadStart2(NatToString(counter))
  IN  IF FilenameTaken(candidate, used) THEN UniqueBasename(baseStrict, counter + 1, used)
      ELSE candidate

RECURSIVE AddImages(_, _)
\* for (const imgInfo of imagesToPackage) await packer.addImageToManifest(imgInfo)
AddImages(P, imagesToPackage) ==
  IF imagesToPackage = <<>> THEN P
  ELSE AddImages(addImageToManifest(P, Head(imagesToPackage)), Tail(imagesToPackage))

GenInit ==
  /\ pc = "start"
  /\ selectedPostStubs \in Selections
  /\ coverImageUrl \in BOOLEAN
  /\ idx = 0
  /\ packer = NewEpubPacker
  /\ usedFilenames = {}
  /\ processedPosts = <<>>
  /\ postCache = {}
  /\ bases = <<>>
  /\ chapters = <<>>
  /\ coverFailed = FALSE
  /\ failedPost = 0
  /\ downloaded = FALSE
  /\ packed = FALSE
  /\ lastCall = NoCall
  /\ ops = <<>>
  /\ npost = EmptyPost
  /\ noutcomes = <<>>
  /\ nresult = EmptyResult
  /\ HistoryEmpty
  /\ LimiterUnused
  /\ FirefoxUnused
  /\ OthersUnused

\* lines 387-408: the parser, the seeded cache, the packer and its stylesheet
Setup ==
  /\ pc = "start"
  /\ postCache' = SeedCache(selectedPostStubs)
  /\ packer' = addStylesheet(NewEpubPacker)
  /\ lastCall' = Call("addStylesheet", packer, packer')
  /\ pc' = "cover"
  /\ UNCHANGED <<selectedPostStubs, coverImageUrl, idx, usedFilenames, processedPosts, bases,
                 chapters, coverFailed, failedPost, downloaded, packed, ops, npost, noutcomes,
                 nresult>>
  /\ UNCHANGED <<histVars, limiterVars, fxVars, otherVars>>

\* lines 410-419: the cover is fetched and encoded; a failure is caught
CoverStep ==
  /\ pc = "cover"
  /\ IF coverImageUrl
       THEN \E outcome \in RunCoverOutcomes :
              LET enc == processImageBlob(outcome)
              IN  IF outcome # "fail" /\ enc.ok
                    THEN /\ packer' = addCoverImage(packer, Str_cover_dot \o enc.extension, enc.mimeType)
                         /\ lastCall' = Call("addCoverImage", packer, packer')
                         /\ UNCHANGED coverFailed
                    ELSE /\ coverFailed' = TRUE
                         /\ UNCHANGED <<packer, lastCall>>
       ELSE UNCHANGED <<packer, lastCall, coverFailed>>
  /\ pc' = "bulk"
  /\ UNCHANGED <<selectedPostStubs, coverImageUrl, idx, usedFilenames, processedPosts, postCache,
                 bases, chapters, failedPost, downloaded, packed, ops, npost, noutcomes, nresult>>
  /\ UNCHANGED <<histVars, limiterVars, fxVars, otherVars>>

\* lines 421-432: the bulk prefetch (prepareForBulkFetch, lines 153-196) of
\* the stubs that carry no content
\* the list pages answer with posts whose titles and markup are drawn from
\* `titles` and `contents`
BulkStepWith(titles, contents) ==
  /\ pc = "bulk"
  /\ LET needing == PostsNeedingFetch(selectedPostStubs)
         offsets == OffsetsToFetch(needing)
     IN  IF Len(needing) > 0
           THEN \E responses \in PageResponseMaps(needing, offsets, titles, contents) :
                  /\ postCache' = BulkLoop(postCache, offsets, responses)
                  /\ bulkRequests' = BulkAttempts(offsets, responses)
           ELSE UNCHANGED <<postCache, bulkRequests>>
  /\ pc' = "posts"
  /\ UNCHANGED <<selectedPostStubs, coverImageUrl, idx, packer, usedFilenames, processedPosts,
                 bases, chapters, coverFailed, failedPost, downloaded, packed, lastCall, ops,
                 npost, noutcomes, nresult>>
  /\ UNCHANGED <<detailRequests, chapterHtml, lastArg, limiterVars, fxVars, otherVars>>

BulkStep == BulkStepWith(TitlePool, RunContents) /\ UNCHANGED prefetched

\* lines 460-489 of one iteration, for the post detail `post`
ProcessPost(post, outcomes) ==
  LET res == processPostImagesAndContent([id |-> post.id, content |-> post.content], outcomes)
      P1 == AddImages(packer, res.imagesToPackage)
      sanitized == sanitizeBasenameForXhtmlStrict(
                     IF post.title # <<>> THEN post.title ELSE Str_Chapter_ \o NatToString(idx))
      baseStrict == UniqueBasename(sanitized, 0, usedFilenames)
      title == IF post.title # <<>> THEN post.title ELSE Str_Untitled
      chapterId == Str_ch_ \o baseStrict
  IN  /\ usedFilenames' = usedFilenames \cup {ToLowerCase(baseStrict)}
      /\ processedPosts' = Append(processedPosts,
                                  [title |-> title, id |-> selectedPostStubs[idx + 1].id,
                                   filename |-> baseStrict])
      /\ packer' = addChapter(P1, title, chapterId)
      /\ lastCall' = Call("addChapter", P1, packer')
      /\ bases' = Append(bases, sanitized)
      /\ chapters' = Append(chapters, chapterId)
      /\ chapterHtml' = Append(chapterHtml, res.updatedHtml)
      /\ idx' = idx + 1
      /\ pc' = "posts"
      /\ UNCHANGED failedPost

\* lines 442-490: one iteration of the per-post loop.  fetchPostFullData
\* (lines 131-151) answers from the cache, or fetches the detail: a failed
\* request and a response without an id are rethrown, and nothing in the loop
\* catches them.  `request` is the post id the iteration asks the detail
\* endpoint for, <<>> when it asks for none; the details it answers with are
\* drawn from `titles` and `contents`
PostStepWith(titles, contents, request) ==
  /\ pc = "posts"
  /\ idx < Len(selectedPostStubs)
  /\ LET postId == selectedPostStubs[idx + 1].id
     IN  IF CacheHas(postCache, postId)
           THEN /\ request = <<>>
                /\ \E outcomes \in [1..NumImgs(CacheGet(postCache, postId).content) -> RunFetchOutcomes] :
                      ProcessPost(CacheGet(postCache, postId), outcomes)
                /\ UNCHANGED postCache
           ELSE /\ request = postId
                /\ \E response \in {"fail", "noId", "ok"} :
                  IF response # "ok"
                    THEN /\ failedPost' = idx + 1
                         /\ pc' = "aborted"
                         /\ UNCHANGED <<idx, packer, lastCall, usedFilenames, processedPosts, bases,
                                        chapters, postCache, chapterHtml>>
                    ELSE \E title \in titles, content \in contents :
                           \E outcomes \in [1..NumImgs(content) -> RunFetchOutcomes] :
                             LET post == [id |-> postId, title |-> title, content |-> content]
                             IN  /\ postCache' = postCache \cup {post}
                                 /\ ProcessPost(post, outcomes)
  /\ UNCHANGED <<selectedPostStubs, coverImageUrl, coverFailed, downloaded, packed, ops, npost,
                 noutcomes, nresult>>
  /\ UNCHANGED <<bulkRequests, prefetched, lastArg, limiterVars, fxVars, otherVars>>

\* what an iteration can ask the detail endpoint for
DetailRequestsOf(stubs) == {<<>>} \cup {stubs[k].id : k \in DOMAIN stubs}

PostStep ==
  /\ \E request \in DetailRequestsOf(selectedPostStubs) :
       PostStepWith(TitlePool, RunContents, request)
  /\ UNCHANGED detailRequests

\* lines 492-494: the contents page
TocStep ==
  /\ pc = "posts"
  /\ idx = Len(selectedPostStubs)
  /\ IF Len(processedPosts) > 0
       THEN /\ packer' = addTableOfContents(packer, processedPosts)
            /\ lastCall' = Call("addTableOfContents", packer, packer')
       ELSE UNCHANGED <<packer, lastCall>>
  /\ pc' = "pack"
  /\ UNCHANGED <<selectedPostStubs, coverImageUrl, idx, usedFilenames, processedPosts, postCache,
                 bases, chapters, coverFailed, failedPost, downloaded, packed, ops, npost,
                 noutcomes, nresult>>
  /\ UNCHANGED <<histVars, limiterVars, fxVars, otherVars>>

\* lines 496-503: packToBlob and the download
PackStep ==
  /\ pc = "pack"
  /\ packer' = packToBlob(packer)
  /\ lastCall' = Call("packToBlob", packer, packer')
  /\ packed' = TRUE
  /\ downloaded' = TRUE
  /\ pc' = "done"
  /\ UNCHANGED <<selectedPostStubs, coverImageUrl, idx, usedFilenames, processedPosts, postCache,
                 bases, chapters, coverFailed, failedPost, ops, npost, noutcomes, nresult>>
  /\ UNCHANGED <<histVars, limiterVars, fxVars, otherVars>>

Next == Setup \/ CoverStep \/ BulkStep \/ PostStep \/ TocStep \/ PackStep

Spec == GenInit /\ [][Next]_vars

(***************************************************************************)
(* The same run with its requests logged: every post has the same title,   *)
(* so that the log is what tells two runs apart.                           *)
(***************************************************************************)
FetchTitlePool == { <<"C","h"," ","1","!","!">> }

\* the bulk prefetch, and the ids it leaves in postCache
FetchBulkStep ==
  /\ BulkStepWith(FetchTitlePool, RunContents)
  /\ prefetched' = CacheIds(postCache')

\* one iteration of the per-post loop, and the request it makes
FetchPostStep ==
  \E request \in DetailRequestsOf(selectedPostStubs) :
    /\ PostStepWith(FetchTitlePool, RunContents, request)
    /\ detailRequests' = IF request = <<>> THEN detailRequests
                         ELSE Append(detailRequests, request)

FetchNext == Setup \/ CoverStep \/ FetchBulkStep \/ FetchPostStep \/ TocStep \/ PackStep

SpecFetch == GenInit /\ [][FetchNext]_vars

(***************************************************************************)
(* The same run over posts that share an inline image: the markup of a      *)
(* post has the image of one URL twice, once, or not at all.               *)
(***************************************************************************)
ShareContents == { <<Img(Url_a), Img(Url_a)>>, <<Img(Url_a)>>, <<>> }

ShareBulkStep ==
  /\ BulkStepWith(FetchTitlePool, ShareContents)
  /\ UNCHANGED prefetched

SharePostStep ==
  /\ \E request \in DetailRequestsOf(selectedPostStubs) :
       PostStepWith(FetchTitlePool, ShareContents, request)
  /\ UNCHANGED detailRequests

ShareNext == Setup \/ CoverStep \/ ShareBulkStep \/ SharePostStep \/ TocStep \/ PackStep

SpecSharedImage == GenInit /\ [][ShareNext]_vars

(***************************************************************************)
(* ensureApiRateLimit.  Time is Date.now() in milliseconds; it advances    *)
(* between the steps of the callers, and a timer fires at or after the     *)
(* time it was set for.                                                    *)
(***************************************************************************)
API_CALL_DELAY == 500

\* by how much Date.now() advances between two steps
TickSteps == {API_CALL_DELAY \div 5, API_CALL_DELAY \div 2}

CallerIds == 1..MaxCallers

\* overlapped: the caller called while another caller had not been released yet
Idle == [pc |-> "idle", overlapped |-> FALSE, due |-> 0]

\* the callers are alike: they call in the order of their numbers
NextCaller(c) == callers[c].pc = "idle" /\ \A b \in CallerIds : b < c => callers[b].pc # "idle"

LimiterInit ==
  /\ pc = "limiter"
  /\ selectedPostStubs = <<>>
  /\ coverImageUrl = FALSE
  /\ idx = 0
  /\ packer = NewEpubPacker
  /\ usedFilenames = {}
  /\ processedPosts = <<>>
  /\ postCache = {}
  /\ bases = <<>>
  /\ chapters = <<>>
  /\ coverFailed = FALSE
  /\ failedPost = 0
  /\ downloaded = FALSE
  /\ packed = FALSE
  /\ lastCall = NoCall
  /\ ops = <<>>
  /\ npost = EmptyPost
  /\ noutcomes = <<>>
  /\ nresult = EmptyResult
  /\ HistoryEmpty
  /\ FirefoxUnused
  /\ OthersUnused
  /\ now = API_CALL_DELAY
  /\ lastApiCallTime = 0
  /\ apiQueue = <<>>
  /\ callers = [c \in CallerIds |-> Idle]
  /\ released = <<>>

LimiterFrame ==
  UNCHANGED <<pc, selectedPostStubs, coverImageUrl, idx, packer, usedFilenames, processedPosts,
              postCache, bases, chapters, coverFailed, failedPost, downloaded, packed, lastCall,
              ops, npost, noutcomes, nresult, histVars, fxVars, otherVars>>

\* time passes while a caller has not been released
Tick ==
  /\ pc = "limiter"
  /\ \E c \in CallerIds : callers[c].pc # "released"
  /\ \E d \in TickSteps :
       /\ now + d <= MaxClock
       /\ now' = now + d
  /\ UNCHANGED <<lastApiCallTime, apiQueue, callers, released>>
  /\ LimiterFrame

\* const now = Date.now(); const elapsed = now - lastApiCallTime;
\* if (elapsed < API_CALL_DELAY) await setTimeout(API_CALL_DELAY - elapsed);
\* otherwise lastApiCallTime = Date.now() and the caller is released.
CheckElapsed(c, overlapped) ==
  LET elapsed == now - lastApiCallTime
  IN  IF elapsed < API_CALL_DELAY
        THEN /\ callers' = [callers EXCEPT ![c].pc = "waiting", ![c].overlapped = overlapped,
                                            ![c].due = now + (API_CALL_DELAY - elapsed)]
             /\ UNCHANGED <<lastApiCallTime, released>>
        ELSE /\ callers' = [callers EXCEPT ![c].pc = "released", ![c].overlapped = overlapped]
             /\ lastApiCallTime' = now
             /\ released' = Append(released, now)

\* the timer of the caller fires: lastApiCallTime = Date.now()
TimerFires(c) ==
  /\ callers[c].pc = "waiting"
  /\ now >= callers[c].due
  /\ callers' = [callers EXCEPT ![c].pc = "released", ![c].due = 0]
  /\ lastApiCallTime' = now
  /\ released' = Append(released, now)

(***************************************************************************)
(* The promise-chain limiter of the first generator of                     *)
(* src/Chromium/EpubGenerator.js (lines 13-28)                             *)
(***************************************************************************)
ChainResolved_Unchained(c) == Includes(apiQueue, c)

\* apiQueue.then(...): the body of a caller runs when the promise of the
\* caller before it has settled
ChainResolved(c) == apiQueue # <<>> /\ Head(apiQueue) = c

\* the body has completed: the next one of the chain may run
Settle(c) == SelectSeq(apiQueue, LAMBDA x : x # c)

\* ensureApiRateLimit(): the body is chained to apiQueue
QueueCall ==
  /\ pc = "limiter"
  /\ \E c \in CallerIds :
       /\ NextCaller(c)
       /\ callers' = [callers EXCEPT ![c].pc = "queued", ![c].overlapped = (apiQueue # <<>>)]
       /\ apiQueue' = Append(apiQueue, c)
  /\ UNCHANGED <<now, lastApiCallTime, released>>
  /\ LimiterFrame

\* the body of a chained caller starts
QueueBody ==
  /\ pc = "limiter"
  /\ \E c \in CallerIds :
       /\ callers[c].pc = "queued"
       /\ ChainResolved(c)
       /\ CheckElapsed(c, callers[c].overlapped)
       /\ apiQueue' = IF callers'[c].pc = "released" THEN Settle(c) ELSE apiQueue
  /\ UNCHANGED now
  /\ LimiterFrame

\* the timer of the waiting body fires and the body completes
QueueTimer ==
  /\ pc = "limiter"
  /\ \E c \in CallerIds :
       /\ TimerFires(c)
       /\ apiQueue' = Settle(c)
  /\ UNCHANGED now
  /\ LimiterFrame

QueueNext == Tick \/ QueueCall \/ QueueBody \/ QueueTimer

SpecQueueLimiter == LimiterInit /\ [][QueueNext]_vars

\* by how much Date.now() advances between two steps of the event loop
LoopSteps == {API_CALL_DELAY \div 2}

\* time passes while a promise has not settled
LoopTick ==
  /\ pc = "limiter"
  /\ \E c \in CallerIds : callers[c].pc \notin {"released", "rejected"}
  /\ \E d \in LoopSteps :
       /\ now + d <= MaxClock
       /\ now' = now + d
  /\ UNCHANGED <<lastApiCallTime, apiQueue, callers, released>>
  /\ LimiterFrame

\* time passes while the timer of a body is pending: setTimeout fires at or
\* after API_CALL_DELAY - timeSinceLast, whatever the clock shows by then
TimerTick ==
  /\ pc = "limiter"
  /\ \E c \in CallerIds : callers[c].pc = "waiting" /\ now < callers[c].due
  /\ \E d \in LoopSteps : now' = now + d
  /\ UNCHANGED <<lastApiCallTime, apiQueue, callers, released>>
  /\ LimiterFrame

RejectedChain_Uncaught(c) == apiQueue

\* apiQueue = nextCall.catch(() => {}): the promise the next body is chained
\* to is fulfilled also when nextCall is rejected
RejectedChain(c) == Settle(c)

\* the body of a caller throws, when it starts or when its timer has fired,
\* before lastApiCallTime is written: nextCall is rejected
QueueReject ==
  /\ pc = "limiter"
  /\ \E c \in CallerIds :
       /\ \/ callers[c].pc = "queued" /\ ChainResolved(c)
          \/ callers[c].pc = "waiting" /\ now >= callers[c].due
       /\ callers' = [callers EXCEPT ![c].pc = "rejected", ![c].due = 0]
       /\ apiQueue' = RejectedChain(c)
  /\ UNCHANGED <<now, lastApiCallTime, released>>
  /\ LimiterFrame

QueueLiveNext == LoopTick \/ TimerTick \/ QueueCall \/ QueueBody \/ QueueTimer \/ QueueReject

\* the event loop runs a body whose chain has settled, time passes while a
\* timer is pending, and a timer that is due fires
SpecQueueLimiterLive ==
  /\ LimiterInit
  /\ [][QueueLiveNext]_vars
  /\ WF_vars(QueueBody)
  /\ WF_vars(TimerTick)
  /\ WF_vars(QueueTimer)

(***************************************************************************)
(* The last-call-timestamp limiter of the second generator of              *)
(* src/Chromium/EpubGenerator.js (lines 637-646) and of the Firefox        *)
(* generators                                                              *)
(***************************************************************************)
\* ensureApiRateLimit(): the caller reads the clock and lastApiCallTime at once
StampCall ==
  /\ pc = "limiter"
  /\ \E c \in CallerIds :
       /\ NextCaller(c)
       /\ CheckElapsed(c, \E b \in CallerIds : callers[b].pc = "waiting")
  /\ UNCHANGED <<now, apiQueue>>
  /\ LimiterFrame

\* the timer of a waiting caller fires
StampTimer ==
  /\ pc = "limiter"
  /\ \E c \in CallerIds : TimerFires(c)
  /\ UNCHANGED <<now, apiQueue>>
  /\ LimiterFrame

StampNext == Tick \/ StampCall \/ StampTimer

SpecStampLimiter == LimiterInit /\ [][StampNext]_vars

(***************************************************************************)
(* The Number arithmetic of the progress percentage of                     *)
(* src/Firefox/kemonoEpubGenerator.js (lines 656-742).  A Number is an     *)
(* IEEE-754 double: 53 significant bits, round to nearest, ties to even.   *)
(* A value v with 1 <= v < 256 is kept exactly as the integer v * 2^52,    *)
(* written with four limbs of 15 bits, the lowest limb first.              *)
(***************************************************************************)
LimbBase == 32768

\* the highest limb of the Number 1
UnitLimb == 128

\* the Number of a small integer literal such as 5, 15, 75 or 100
FromInt(v) == <<0, 0, 0, v * UnitLimb>>

RECURSIVE HighBit(_, _)
\* the largest power of two that is at most x, from the power p upwards
HighBit(x, p) == IF 2 * p > x THEN p ELSE HighBit(x, 2 * p)

\* the difference between a double and the next one, in units of 2^-52
Ulp(x) == HighBit(x[4], UnitLimb) \div UnitLimb

\* limbs brought back below LimbBase
Carry(x) ==
  LET c1 == x[1] \div LimbBase
      c2 == (x[2] + c1) \div LimbBase
      c3 == (x[3] + c2) \div LimbBase
  IN  <<x[1] % LimbBase, (x[2] + c1) % LimbBase, (x[3] + c2) % LimbBase, x[4] + c3>>

\* the exact value x + r/n rounded to a double: to the nearest multiple of
\* Ulp(x), and to the even one of two equally near
RoundNearestEven(x, r, n) ==
  LET U     == Ulp(x)
      low   == x[1] % U
      kept  == x[1] - low
      odd   == (kept \div U) % 2 = 1
      twice == 2 * (low * n + r)
      up    == twice > U * n \/ (twice = U * n /\ odd)
  IN  Carry(<<kept + (IF up THEN U ELSE 0), x[2], x[3], x[4]>>)

\* a + b of two Numbers
Plus(a, b) == RoundNearestEven(Carry(<<a[1] + b[1], a[2] + b[2], a[3] + b[3], a[4] + b[4]>>), 0, 1)

\* v / n of two small integers, by long division from the highest limb
Divide(v, n) ==
  LET d  == FromInt(v)
      q4 == d[4] \div n
      r4 == d[4] % n
      q3 == (r4 * LimbBase + d[3]) \div n
      r3 == (r4 * LimbBase + d[3]) % n
      q2 == (r3 * LimbBase + d[2]) \div n
      r2 == (r3 * LimbBase + d[2]) % n
      q1 == (r2 * LimbBase + d[1]) \div n
      r1 == (r2 * LimbBase + d[1]) % n
  IN  RoundNearestEven(<<q1, q2, q3, q4>>, r1, n)

\* a < b of two Numbers
Less(a, b) ==
  \E k \in 1..4 : a[k] < b[k] /\ \A j \in (k + 1)..4 : a[j] = b[j]

\* Math.min(a, b)
MathMin(a, b) == IF Less(b, a) THEN b ELSE a

(***************************************************************************)
(* The EpubPacker of src/Firefox/kemonoEpubGenerator.js (lines 269-560).   *)
(* zip is the list of the entries of the JSZip object in the order in      *)
(* which they were added, which is the order of the archive.               *)
(***************************************************************************)
ZipEntry(path, compression) == [path |-> path, compression |-> compression]

\* zip.folder(name): the entry of the folder, added once
FxZipFolder(zip, path) ==
  IF \E k \in DOMAIN zip : zip[k].path = path THEN zip ELSE Append(zip, ZipEntry(path, "folder"))

\* zip.file(name, data, options): a new name is added after the entries
\* there are, a known name keeps its place
FxZipFile(zip, path, compression) ==
  IF \E k \in DOMAIN zip : zip[k].path = path
    THEN [k \in DOMAIN zip |-> IF zip[k].path = path THEN ZipEntry(path, compression) ELSE zip[k]]
    ELSE Append(zip, ZipEntry(path, compression))

\* new EpubPacker(metadata)
FxNewEpubPacker ==
  [ zip         |-> FxZipFolder(FxZipFolder(FxZipFolder(FxZipFolder(<<>>,
                      "OEBPS/"), "OEBPS/Text/"), "OEBPS/Images/"), "OEBPS/Styles/"),
    spineOrder  |-> <<>>,
    tocEntries  |-> <<>>,
    fileCounter |-> 0,
    tocNcx      |-> <<>>,
    mimetype    |-> "" ]

\* EpubPacker.addMimetype
FxAddMimetype(P) ==
  [P EXCEPT !.zip = FxZipFile(@, "mimetype", "STORE"), !.mimetype = "application/epub+zip"]

\* EpubPacker.addContainerXml
FxAddContainerXml(P) ==
  [P EXCEPT !.zip = FxZipFile(FxZipFolder(@, "META-INF/"), "META-INF/container.xml", "")]

\* EpubPacker.addStylesheet
FxAddStylesheet(P) ==
  [P EXCEPT !.zip = FxZipFile(@, "OEBPS/Styles/stylesheet.css", "")]

\* EpubPacker.addCoverImage
FxAddCoverImage(P) ==
  [P EXCEPT !.zip = FxZipFile(FxZipFile(@, "OEBPS/Images/cover.jpeg", ""), "OEBPS/Text/cover.xhtml", ""),
            !.spineOrder = <<"cover-xhtml">> \o @]

\* EpubPacker.addChapter
FxAddChapter(P, postId) ==
  LET chapterId  == "chapter-" \o postId
      pathInEpub == "Text/" \o chapterId \o ".xhtml"
  IN  [P EXCEPT !.fileCounter = @ + 1,
                !.zip = FxZipFile(@, "OEBPS/" \o pathInEpub, ""),
                !.spineOrder = Append(@, chapterId),
                !.tocEntries = Append(@, [id        |-> "nav-" \o chapterId,
                                          href      |-> pathInEpub,
                                          playOrder |-> Len(P.tocEntries) + 1])]

\* where addTableOfContentsPage puts the page in the spine: after the cover
FxInsertIndex(spine) == IF spine # <<>> /\ Head(spine) = "cover-xhtml" THEN 1 ELSE 0

\* this.tocEntries.unshift({ ..., id: 'nav-toc-page', playOrder: 0 })
TocPageEntry(entries) ==
  <<[id |-> "nav-toc-page", href |-> "Text/toc_page.xhtml", playOrder |-> 0]>> \o entries

\* EpubPacker.addTableOfContentsPage
FxAddTableOfContentsPage(P) ==
  IF Len(P.tocEntries) > 1
    THEN [P EXCEPT !.zip = FxZipFile(@, "OEBPS/Text/toc_page.xhtml", ""),
                   !.spineOrder = SubSeq(@, 1, FxInsertIndex(@)) \o <<"toc-page">>
                                    \o SubSeq(@, FxInsertIndex(@) + 1, Len(@)),
                   !.tocEntries = TocPageEntry(@)]
    ELSE P

\* EpubPacker.buildTocNcx: the navPoints of toc.ncx, in document order
FxBuildTocNcx(P) ==
  [k \in DOMAIN P.tocEntries |-> [id        |-> P.tocEntries[k].id,
                                  playOrder |-> P.tocEntries[k].playOrder,
                                  src       |-> P.tocEntries[k].href]]

\* EpubPacker.packToBlob
FxPackToBlob(P) ==
  LET Q == FxAddContainerXml(FxAddMimetype(P))
  IN  [Q EXCEPT !.zip = FxZipFile(FxZipFile(FxZipFile(@, "OEBPS/content.opf", ""),
                                            "OEBPS/toc.ncx", ""), "OEBPS/toc.xhtml", ""),
                !.tocNcx = FxBuildTocNcx(P)]

(***************************************************************************)
(* generateKemonoEpub of src/Firefox/kemonoEpubGenerator.js (lines         *)
(* 610-747): the packer and the percentages given to progressCallback.     *)
(* The calls with the percentage -1, which only carry a message, are not   *)
(* recorded.                                                               *)
(***************************************************************************)
WEIGHT_SETUP == 5
WEIGHT_BULK_FETCH == 15
WEIGHT_PROCESS_POSTS == 75
WEIGHT_PACKING == 5

\* progressCallback(percentage, message)
progressCallback(log, percentage) == Append(log, percentage)

\* the state at line 658: the packer has its stylesheet, progress 0 is reported
FirefoxInit ==
  /\ pc = "firefox"
  /\ selectedPostStubs = <<>>
  /\ coverImageUrl = FALSE
  /\ idx = 0
  /\ packer = NewEpubPacker
  /\ usedFilenames = {}
  /\ processedPosts = <<>>
  /\ postCache = {}
  /\ bases = <<>>
  /\ chapters = <<>>
  /\ coverFailed = FALSE
  /\ failedPost = 0
  /\ downloaded = FALSE
  /\ packed = FALSE
  /\ lastCall = NoCall
  /\ ops = <<>>
  /\ npost = EmptyPost
  /\ noutcomes = <<>>
  /\ nresult = EmptyResult
  /\ HistoryEmpty
  /\ LimiterUnused
  /\ OthersUnused
  /\ fxPc = "cover"
  /\ fxN \in 0..MaxFxPosts
  /\ fxI = 0
  /\ fxPacker = FxAddStylesheet(FxNewEpubPacker)
  /\ fxCurrent = FromInt(0)
  /\ fxProgress = progressCallback(<<>>, FromInt(0))

FirefoxFrame ==
  UNCHANGED <<pc, selectedPostStubs, coverImageUrl, idx, packer, usedFilenames, processedPosts,
              postCache, bases, chapters, coverFailed, failedPost, downloaded, packed, lastCall,
              ops, npost, noutcomes, nresult, histVars, limiterVars, otherVars>>

\* lines 659-673: the cover, then currentProgress += WEIGHT_SETUP
FxCoverStep ==
  /\ fxPc = "cover"
  /\ \E cover \in {"none", "ok", "failed"} :
       /\ fxPacker' = IF cover = "ok" THEN FxAddCoverImage(fxPacker) ELSE fxPacker
       /\ fxCurrent' = Plus(fxCurrent, FromInt(WEIGHT_SETUP))
       /\ fxProgress' = progressCallback(
                          IF cover = "none" THEN fxProgress ELSE progressCallback(fxProgress, fxCurrent),
                          fxCurrent')
  /\ fxPc' = "bulk"
  /\ UNCHANGED <<fxN, fxI>>
  /\ FirefoxFrame

\* lines 675-685: the bulk prefetch, which reports messages only, then
\* currentProgress += WEIGHT_BULK_FETCH
FxBulkStep ==
  /\ fxPc = "bulk"
  /\ fxCurrent' = Plus(fxCurrent, FromInt(WEIGHT_BULK_FETCH))
  /\ fxProgress' = progressCallback(
                     IF fxN > 0 THEN progressCallback(fxProgress, fxCurrent) ELSE fxProgress,
                     fxCurrent')
  /\ fxPc' = "posts"
  /\ UNCHANGED <<fxN, fxI, fxPacker>>
  /\ FirefoxFrame

\* lines 688-729: one turn of the per-post loop; a post whose fetch or
\* processing throws adds no chapter, and the progress advances all the same
FxPostStep ==
  /\ fxPc = "posts"
  /\ fxI < fxN
  /\ LET postProgressFraction == Divide(WEIGHT_PROCESS_POSTS, fxN)
     IN  /\ fxCurrent' = Plus(fxCurrent, postProgressFraction)
         /\ fxProgress' = progressCallback(
                            progressCallback(fxProgress, MathMin(FromInt(100), fxCurrent)),
                            MathMin(FromInt(100), fxCurrent'))
  /\ \E outcome \in {"ok", "error"} :
       fxPacker' = IF outcome = "ok" THEN FxAddChapter(fxPacker, ToString(fxI + 1)) ELSE fxPacker
  /\ fxI' = fxI + 1
  /\ UNCHANGED <<fxPc, fxN>>
  /\ FirefoxFrame

\* lines 731-742: currentProgress is set to 95, the contents page is added
FxFinishStep ==
  /\ fxPc = "posts"
  /\ fxI = fxN
  /\ fxCurrent' = FromInt(WEIGHT_SETUP + WEIGHT_BULK_FETCH + WEIGHT_PROCESS_POSTS)
  /\ fxPacker' = FxAddTableOfContentsPage(fxPacker)
  /\ fxProgress' = progressCallback(progressCallback(fxProgress, fxCurrent'),
                                    Plus(fxCurrent', FromInt(WEIGHT_PACKING)))
  /\ fxPc' = "pack"
  /\ UNCHANGED <<fxN, fxI>>
  /\ FirefoxFrame

\* lines 743-746: packToBlob, progress 100, saveAs
FxPackStep ==
  /\ fxPc = "pack"
  /\ fxPacker' = FxPackToBlob(fxPacker)
  /\ fxProgress' = progressCallback(fxProgress, FromInt(100))
  /\ fxPc' = "done"
  /\ UNCHANGED <<fxN, fxI, fxCurrent>>
  /\ FirefoxFrame

FirefoxNext == FxCoverStep \/ FxBulkStep \/ FxPostStep \/ FxFinishStep \/ FxPackStep

SpecFirefox == FirefoxInit /\ [][FirefoxNext]_vars

(***************************************************************************)
(* sanitizeHtmlContent of the second generator of                          *)
(* src/Chromium/EpubGenerator.js (lines 731-771).  Every String.replace    *)
(* with a global regular expression is a scan from the left: where the     *)
(* expression matches, the match is replaced and the scan goes on after    *)
(* it; elsewhere the character is kept.                                    *)
(***************************************************************************)
LetterSet == UpperSet \cup Range(LowerChars)

\* \w
WordSet == LetterSet \cup Range(DigitChars) \cup {"_"}

\* the literal lit is at place i of s, ignoring case (the flag i)
MatchesAt(s, i, lit) ==
  /\ i + Len(lit) - 1 <= Len(s)
  /\ ToLowerCase(SubSeq(s, i, i + Len(lit) - 1)) = lit

RECURSIVE IndexFrom(_, _, _)
\* the first place from i on where s has the character c, or 0
IndexFrom(s, c, i) ==
  IF i > Len(s) THEN 0 ELSE IF s[i] = c THEN i ELSE IndexFrom(s, c, i + 1)

RECURSIVE SkipSpaces(_, _)
\* \s* from place i: the place after the white space
SkipSpaces(s, i) ==
  IF i <= Len(s) /\ IsSpaceChar(s[i]) THEN SkipSpaces(s, i + 1) ELSE i

RECURSIVE TrailingSlashes(_)
\* the number of "/" characters s ends with
TrailingSlashes(s) ==
  IF s # <<>> /\ s[Len(s)] = "/" THEN 1 + TrailingSlashes(SubSeq(s, 1, Len(s) - 1)) ELSE 0

RECURSIVE TrimEndSpaces(_)
TrimEndSpaces(s) ==
  IF s # <<>> /\ IsSpaceChar(s[Len(s)]) THEN TrimEndSpaces(SubSeq(s, 1, Len(s) - 1)) ELSE s

Str_script_open == <<"<","s","c","r","i","p","t">>

Str_script_close == <<"<","/","s","c","r","i","p","t",">">>

RECURSIVE ScriptCloseFrom(_, _)
\* [^<]*(?:(?!<\/script>)<[^<]*)*<\/script> from place i: the last place of
\* the first </script> from i on, or 0
ScriptCloseFrom(s, i) ==
  LET lt == IndexFrom(s, "<", i)
  IN  IF lt = 0 THEN 0
      ELSE IF MatchesAt(s, lt, Str_script_close) THEN lt + Len(Str_script_close) - 1
      ELSE ScriptCloseFrom(s, lt + 1)

\* /<script\b[^<]*(?:(?!<\/script>)<[^<]*)*<\/script>/gi
ScriptEnd(s, i) ==
  LET after == i + Len(Str_script_open)
  IN  IF MatchesAt(s, i, Str_script_open) /\ after <= Len(s) /\ s[after] \notin WordSet
        THEN ScriptCloseFrom(s, after)
        ELSE 0

Str_nbsp == <<"&","n","b","s","p",";">>

\* /&nbsp;/gi
NbspEnd(s, i) == IF MatchesAt(s, i, Str_nbsp) THEN i + Len(Str_nbsp) - 1 ELSE 0

\* /<br(\s*)>/gi
BrEnd(s, i) ==
  LET e == SkipSpaces(s, i + 3)
  IN  IF MatchesAt(s, i, <<"<","b","r">>) /\ e <= Len(s) /\ s[e] = ">" THEN e ELSE 0

\* the first ">" after the "<tag" at place i, or 0
TagClose(s, i, tag) ==
  IF MatchesAt(s, i, <<"<">> \o tag) THEN IndexFrom(s, ">", i + 1 + Len(tag)) ELSE 0

\* new RegExp(`<${tag}([^>]*?)>(?!\\s*</${tag}>)`, "gi")
NormalEnd(s, i, tag) ==
  LET e == TagClose(s, i, tag)
  IN  IF e # 0 /\ ~MatchesAt(s, SkipSpaces(s, e + 1), <<"<","/">> \o tag \o <<">">>) THEN e ELSE 0

\* new RegExp(`<${tag}([^>]*?)\\s*\\/\\/{2,}>`, "gi")
ExtraEnd(s, i, tag) ==
  LET e == TagClose(s, i, tag)
  IN  IF e # 0 /\ TrailingSlashes(SubSeq(s, i + 1 + Len(tag), e - 1)) >= 3 THEN e ELSE 0

\* the $1 of reExtra: what is before the white space and the slashes
ExtraGroup(s, i, e, tag) ==
  LET inner == SubSeq(s, i + 1 + Len(tag), e - 1)
  IN  TrimEndSpaces(SubSeq(inner, 1, Len(inner) - TrailingSlashes(inner)))

\* /<([a-z]+)([^>]*)\/\/+>/gi
SlashesEnd(s, i) ==
  LET e == IndexFrom(s, ">", i + 1)
  IN  IF /\ s[i] = "<"
         /\ e # 0
         /\ s[i + 1] \in LetterSet
         /\ TrailingSlashes(SubSeq(s, i + 2, e - 1)) >= 2
        THEN e ELSE 0

\* a regular expression of sanitizeHtmlContent; tag is the ${tag} of the two
\* expressions selfCloseVoidElements builds
RegExp(kind, tag) == [kind |-> kind, tag |-> tag]

\* the last place of the match of re that starts at place i of s, or 0
MatchEnd(re, s, i) ==
  CASE re.kind = "script"  -> ScriptEnd(s, i)
    [] re.kind = "nbsp"    -> NbspEnd(s, i)
    [] re.kind = "br"      -> BrEnd(s, i)
    [] re.kind = "normal"  -> NormalEnd(s, i, re.tag)
    [] re.kind = "extra"   -> ExtraEnd(s, i, re.tag)
    [] re.kind = "slashes" -> SlashesEnd(s, i)

\* what replaces the match of re from place i to place e of s
Replacement(re, s, i, e) ==
  CASE re.kind = "script"  -> <<>>
    [] re.kind = "nbsp"    -> <<"&","#","1","6","0",";">>
    [] re.kind = "br"      -> <<"<","b","r"," ","/",">">>
    [] re.kind = "normal"  -> <<"<">> \o re.tag \o SubSeq(s, i + 1 + Len(re.tag), e - 1) \o <<"/",">">>
    [] re.kind = "extra"   -> <<"<">> \o re.tag \o ExtraGroup(s, i, e, re.tag) \o <<"/",">">>
    [] re.kind = "slashes" -> SubSeq(s, i, e - 3) \o <<"/",">">>

RECURSIVE ReplaceAll(_, _, _)
\* s.replace(re, ...) from place i on
ReplaceAll(s, i, re) ==
  IF i > Len(s) THEN <<>>
  ELSE LET e == MatchEnd(re, s, i)
       IN  IF e # 0
             THEN Replacement(re, s, i, e) \o ReplaceAll(s, e + 1, re)
             ELSE <<s[i]>> \o ReplaceAll(s, i + 1, re)

\* html.replace(/&nbsp;/gi, "&#160;")
replaceUnsupportedEntities(html) == ReplaceAll(html, 1, RegExp("nbsp", <<>>))

\* html.replace(/<br(\s*)>/gi, "<br />")
normalizeXhtmlVoidTags(html) == ReplaceAll(html, 1, RegExp("br", <<>>))

\* the voidEls of selfCloseVoidElements
voidEls ==
  << <<"a","r","e","a">>, <<"b","a","s","e">>, <<"b","r">>, <<"c","o","l">>,
     <<"e","m","b","e","d">>, <<"h","r">>, <<"i","m","g">>, <<"i","n","p","u","t">>,
     <<"k","e","y","g","e","n">>, <<"l","i","n","k">>, <<"m","e","t","a">>,
     <<"p","a","r","a","m">>, <<"s","o","u","r","c","e">>, <<"t","r","a","c","k">>,
     <<"w","b","r">> >>

RECURSIVE SelfCloseTags(_, _)
\* voidEls.forEach from the k-th tag on
SelfCloseTags(html, k) ==
  IF k > Len(voidEls) THEN html
  ELSE SelfCloseTags(ReplaceAll(ReplaceAll(html, 1, RegExp("normal", voidEls[k])),
                                1, RegExp("extra", voidEls[k])),
                     k + 1)

\* selfCloseVoidElements
selfCloseVoidElements(html) == ReplaceAll(SelfCloseTags(html, 1), 1, RegExp("slashes", <<>>))

\* sanitizeHtmlContent
sanitizeHtmlContent(html) ==
  selfCloseVoidElements(normalizeXhtmlVoidTags(replaceUnsupportedEntities(
    ReplaceAll(html, 1, RegExp("script", <<>>)))))

\* the pieces the markup of a sanitizeHtmlContent call is made of
MarkupPieces ==
  { <<"<","b">>, <<"<","b","r">>, <<"/">>, <<"/","/">>, <<">">>, <<" ">>,
    <<"<","s","c","r">>, <<"i","p","t",">">>, Str_script_open \o <<">">> \o Str_script_close,
    Str_script_close }

RECURSIVE Markups(_)
\* the markup strings of at most n pieces
Markups(n) ==
  IF n = 0 THEN {<<>>}
  ELSE LET shorter == Markups(n - 1)
       IN  shorter \cup {m \o p : m \in shorter, p \in MarkupPieces}

SanitizerInit ==
  /\ pc = "sanitizer"
  /\ selectedPostStubs = <<>>
  /\ coverImageUrl = FALSE
  /\ idx = 0
  /\ packer = NewEpubPacker
  /\ usedFilenames = {}
  /\ processedPosts = <<>>
  /\ postCache = {}
  /\ bases = <<>>
  /\ chapters = <<>>
  /\ coverFailed = FALSE
  /\ failedPost = 0
  /\ downloaded = FALSE
  /\ packed = FALSE
  /\ lastCall = NoCall
  /\ ops = <<>>
  /\ npost = EmptyPost
  /\ noutcomes = <<>>
  /\ nresult = EmptyResult
  /\ HistoryEmpty
  /\ LimiterUnused
  /\ FirefoxUnused
  /\ htmlString \in Markups(MaxPieces)
  /\ sanitizedRuns = <<>>
  /\ LaterUnused

\* sanitizeHtmlContent is called on the markup, then on its own result
SanitizeCall ==
  /\ pc = "sanitizer"
  /\ Len(sanitizedRuns) < 2
  /\ sanitizedRuns' = Append(sanitizedRuns,
                             sanitizeHtmlContent(IF sanitizedRuns = <<>> THEN htmlString
                                                 ELSE sanitizedRuns[Len(sanitizedRuns)]))
  /\ UNCHANGED <<pc, selectedPostStubs, coverImageUrl, idx, packer, usedFilenames, processedPosts,
                 postCache, bases, chapters, coverFailed, failedPost, downloaded, packed, lastCall,
                 ops, npost, noutcomes, nresult, histVars, limiterVars, fxVars, htmlString,
                 laterVars>>

SanitizerNext == SanitizeCall

SpecSanitizer == SanitizerInit /\ [][SanitizerNext]_vars

(***************************************************************************)
(* The pages that start a run.  The selection page (epub_creator.js) lists *)
(* the creator's posts and packs the selected ones; the post page          *)
(* (content-script.js) packs the one post it shows.  A page of the list    *)
(* endpoint holds StubsPerPage posts here.  The controls are kept as the   *)
(* last updateOverallUIState left them: packEpubButton, applyFilterBtn and *)
(* confirmBtn hold "disabled", loadMoreBtn, mainContentSectionsWrapper and *)
(* overlay hold "displayed", chapterListUl the listed checkboxes.  The     *)
(* range selectors stay at the oldest and newest post, so every fetched    *)
(* post is displayed.                                                      *)
(***************************************************************************)
\* the values of the tag filter: none, or one tag
UiFilters == {"", "a"}

\* the creator's posts, newest first; published follows the id
NumListPosts == 2 * StubsPerPage + 1

UiStub(n, f) == [id |-> n, under |-> f]

\* the posts the list endpoint has under a filter: all of them, or the one
\* post that carries the tag
ServerList(f) ==
  IF f = "" THEN [k \in 1..NumListPosts |-> UiStub(NumListPosts + 1 - k, f)]
  ELSE <<UiStub(1, f)>>

\* fetchPostListPage(service, creatorId, offset, limit, filter) when it answers
ListResponse(f, offset) ==
  LET all  == ServerList(f)
      last == IF offset + StubsPerPage < Len(all) THEN offset + StubsPerPage ELSE Len(all)
  IN  SubSeq(all, offset + 1, last)

SortNewestFirst(posts) ==
  [k \in 1..Len(posts) |->
     CHOOSE x \in Range(posts) : Cardinality({y \in Range(posts) : y.id > x.id}) = k - 1]

SelectionPage ==
  [kind |-> "selection", isPacking |-> FALSE, isLoadingPosts |-> TRUE, isLoadingMore |-> FALSE,
   error |-> FALSE, allFetchedPosts |-> <<>>, selectedPosts |-> {}, currentFilter |-> "",
   totalFetchedOffset |-> 0, atEndOfPosts |-> FALSE, totalAvailablePosts |-> 0,
   packEpubButton |-> TRUE, applyFilterBtn |-> TRUE, loadMoreBtn |-> FALSE,
   mainContentSectionsWrapper |-> FALSE, chapterListUl |-> [ids |-> {}, disabled |-> FALSE],
   overlay |-> FALSE, confirmBtn |-> FALSE, progress |-> 0]

PostPage == [SelectionPage EXCEPT !.kind = "post", !.isLoadingPosts = FALSE]

PendingLoad(at, all, offset, acc, n, f) ==
  [pc |-> at, loadAll |-> all, offset |-> offset, accumulated |-> acc, pages |-> n,
   filter |-> f]

RemoveAt(s, i) == SubSeq(s, 1, i - 1) \o SubSeq(s, i + 1, Len(s))

updateOverallUIState(p) ==
  LET count              == Cardinality(p.selectedPosts)
      showLoadingMessage == p.isLoadingPosts /\ p.allFetchedPosts = <<>>
      showNoPostsMessage == ~p.isLoadingPosts /\ p.allFetchedPosts = <<>> /\ ~p.error
      showLoadButtons    == /\ ~p.atEndOfPosts
                            /\ p.totalFetchedOffset < p.totalAvailablePosts
                            /\ ~p.isLoadingMore
                            /\ ~p.isPacking
                            /\ ~showLoadingMessage
                            /\ ~showNoPostsMessage
  IN  [p EXCEPT
         !.applyFilterBtn = p.isLoadingPosts \/ p.isPacking,
         !.mainContentSectionsWrapper = ~showLoadingMessage /\ ~showNoPostsMessage /\ ~p.error,
         !.loadMoreBtn = showLoadButtons,
         !.chapterListUl = [ids |-> {x.id : x \in Range(p.allFetchedPosts)},
                            disabled |-> p.isPacking],
         !.packEpubButton = p.isPacking \/ count = 0 \/ p.isLoadingPosts \/ p.isLoadingMore]

\* loadPostsPage from "if (initialLoading) isLoadingPosts = true" to the
\* first fetchPostListPage
BeginFetch(p, offset, all, initialLoading) ==
  [page |-> updateOverallUIState(
              [p EXCEPT !.isLoadingPosts = IF initialLoading THEN TRUE ELSE @,
                        !.isLoadingMore = IF initialLoading THEN @ ELSE TRUE,
                        !.error = FALSE]),
   load |-> PendingLoad("page", all, offset, p.allFetchedPosts, 0, p.currentFilter)]

\* loadPostsPage(offsetToLoad, loadAll) up to its first await
loadPostsPage(p, offsetToLoad, all) ==
  IF offsetToLoad = 0
  THEN [page |-> [p EXCEPT !.allFetchedPosts = <<>>, !.totalFetchedOffset = 0,
                           !.atEndOfPosts = FALSE, !.selectedPosts = {}],
        load |-> PendingLoad("profile", all, 0, <<>>, 0, "")]
  ELSE BeginFetch(p, offsetToLoad, all, FALSE)

\* the end of loadPostsPage: the code after the loop and the finally block
LoadDone(p, acc, n, failed) ==
  updateOverallUIState(
    [p EXCEPT !.allFetchedPosts = IF failed THEN @ ELSE SortNewestFirst(acc),
              !.totalFetchedOffset = IF failed THEN @ ELSE @ + n * StubsPerPage,
              !.error = IF failed THEN TRUE ELSE @,
              !.atEndOfPosts = IF failed THEN TRUE ELSE @,
              !.isLoadingPosts = FALSE,
              !.isLoadingMore = FALSE])

UiInit ==
  /\ pc = "page"
  /\ selectedPostStubs = <<>>
  /\ coverImageUrl = FALSE
  /\ idx = 0
  /\ packer = NewEpubPacker
  /\ usedFilenames = {}
  /\ processedPosts = <<>>
  /\ postCache = {}
  /\ bases = <<>>
  /\ chapters = <<>>
  /\ coverFailed = FALSE
  /\ failedPost = 0
  /\ downloaded = FALSE
  /\ packed = FALSE
  /\ lastCall = NoCall
  /\ ops = <<>>
  /\ npost = EmptyPost
  /\ noutcomes = <<>>
  /\ nresult = EmptyResult
  /\ HistoryEmpty
  /\ LimiterUnused
  /\ FirefoxUnused
  /\ SanitizerUnused
  /\ \/ /\ page = loadPostsPage(SelectionPage, 0, FALSE).page
        /\ loads = <<loadPostsPage(SelectionPage, 0, FALSE).load>>
     \/ /\ page = PostPage
        /\ loads = <<>>
  /\ runs = <<>>
  /\ ParserUnused

UiFrame ==
  UNCHANGED <<pc, selectedPostStubs, coverImageUrl, idx, packer, usedFilenames, processedPosts,
              postCache, bases, chapters, coverFailed, failedPost, downloaded, packed, lastCall,
              ops, npost, noutcomes, nresult, histVars, limiterVars, fxVars, sanVars,
              parserVars>>

\* a click on applyFilterBtn
handleApplyFilter(newTag) ==
  /\ page.kind = "selection"
  /\ ~page.applyFilterBtn
  /\ Len(loads) < MaxLoads
  /\ LET started == loadPostsPage([page EXCEPT !.currentFilter = newTag, !.selectedPosts = {},
                                               !.totalFetchedOffset = 0,
                                               !.atEndOfPosts = FALSE], 0, FALSE)
     IN  /\ page' = started.page
         /\ loads' = Append(loads, started.load)
  /\ UNCHANGED runs
  /\ UiFrame

\* a click on loadMoreBtn
handleLoadMore ==
  /\ page.kind = "selection"
  /\ page.mainContentSectionsWrapper
  /\ page.loadMoreBtn
  /\ Len(loads) < MaxLoads
  /\ ~page.atEndOfPosts
  /\ page.totalFetchedOffset < page.totalAvailablePosts
  /\ ~page.isLoadingMore
  /\ LET started == loadPostsPage(page, page.totalFetchedOffset, FALSE)
     IN  /\ page' = started.page
         /\ loads' = Append(loads, started.load)
  /\ UNCHANGED runs
  /\ UiFrame

\* a click on loadAllBtn, displayed with loadMoreBtn
handleLoadAll ==
  /\ page.kind = "selection"
  /\ page.mainContentSectionsWrapper
  /\ page.loadMoreBtn
  /\ Len(loads) < MaxLoads
  /\ ~page.isLoadingMore
  /\ LET started == loadPostsPage(page, page.totalFetchedOffset, TRUE)
     IN  /\ page' = started.page
         /\ loads' = Append(loads, started.load)
  /\ UNCHANGED runs
  /\ UiFrame

\* fetchCreatorProfile settles in a loadPostsPage call
ProfileSettles(i, ok) ==
  /\ i \in DOMAIN loads
  /\ loads[i].pc = "profile"
  /\ IF ok
     THEN LET started == BeginFetch([page EXCEPT !.totalAvailablePosts = NumListPosts],
                                    0, loads[i].loadAll, TRUE)
          IN  /\ page' = started.page
              /\ loads' = [loads EXCEPT ![i] = started.load]
     ELSE /\ page' = updateOverallUIState([page EXCEPT !.error = TRUE,
                                                       !.isLoadingPosts = FALSE,
                                                       !.isLoadingMore = FALSE])
          /\ loads' = RemoveAt(loads, i)
  /\ UNCHANGED runs
  /\ UiFrame

\* fetchPostListPage settles in a loadPostsPage call: one turn of its loop
PageSettles(i, ok) ==
  /\ i \in DOMAIN loads
  /\ loads[i].pc = "page"
  /\ LET c        == loads[i]
         newPosts == ListResponse(c.filter, c.offset)
         existing == {x.id : x \in Range(c.accumulated)}
         acc      == c.accumulated \o SelectSeq(newPosts, LAMBDA x : x.id \notin existing)
         offset   == c.offset + StubsPerPage
         short    == Len(newPosts) < StubsPerPage
     IN  IF ~ok
         THEN /\ page' = LoadDone(page, c.accumulated, c.pages, TRUE)
              /\ loads' = RemoveAt(loads, i)
         ELSE IF newPosts = <<>>
         THEN /\ page' = LoadDone([page EXCEPT !.atEndOfPosts = TRUE], c.accumulated, c.pages,
                                  FALSE)
              /\ loads' = RemoveAt(loads, i)
         ELSE IF ~c.loadAll
         THEN /\ page' = LoadDone([page EXCEPT !.atEndOfPosts = IF short THEN TRUE ELSE @],
                                  acc, c.pages + 1, FALSE)
              /\ loads' = RemoveAt(loads, i)
         ELSE IF short /\ offset >= page.totalAvailablePosts
         THEN /\ page' = LoadDone([page EXCEPT !.atEndOfPosts = TRUE], acc, c.pages + 1, FALSE)
              /\ loads' = RemoveAt(loads, i)
         ELSE /\ page' = page
              /\ loads' = [loads EXCEPT ![i] = PendingLoad("page", TRUE, offset, acc,
                                                           c.pages + 1, page.currentFilter)]
  /\ UNCHANGED runs
  /\ UiFrame

\* the posts whose checkbox the user changes: the oldest and the newest
ToggledIds == {1, NumListPosts}

\* a change of the checkbox of a listed post
handlePostSelectionChange(postId) ==
  /\ page.kind = "selection"
  /\ page.mainContentSectionsWrapper
  /\ postId \in page.chapterListUl.ids
  /\ ~page.chapterListUl.disabled
  /\ page' = updateOverallUIState(
               [page EXCEPT !.selectedPosts = IF postId \in @ THEN @ \ {postId}
                                              ELSE @ \cup {postId}])
  /\ UNCHANGED <<loads, runs>>
  /\ UiFrame

\* a click on packEpubButton
handlePackEpub ==
  /\ page.kind = "selection"
  /\ page.mainContentSectionsWrapper
  /\ ~page.packEpubButton
  /\ Len(runs) < MaxRuns
  /\ LET postsToPackStubs == SelectSeq(page.allFetchedPosts,
                                       LAMBDA x : x.id \in page.selectedPosts)
     IN  IF postsToPackStubs = <<>>
         THEN UNCHANGED <<page, runs>>
         ELSE /\ page' = updateOverallUIState([page EXCEPT !.isPacking = TRUE,
                                                           !.progress = 0,
                                                           !.error = FALSE])
              /\ runs' = Append(runs, [pc |-> "generating", attached |-> FALSE])
  /\ UNCHANGED loads
  /\ UiFrame

\* the percentages a run is seen to report
ProgressSteps == {10, 90}

\* the progress callback of a run of the selection page
PackProgress(i, currentProgress) ==
  /\ page.kind = "selection"
  /\ i \in DOMAIN runs
  /\ page' = updateOverallUIState([page EXCEPT !.progress = currentProgress])
  /\ UNCHANGED <<loads, runs>>
  /\ UiFrame

\* generateKemonoEpub settles in handlePackEpub: its catch and finally blocks
PackSettles(i, ok) ==
  /\ page.kind = "selection"
  /\ i \in DOMAIN runs
  /\ page' = updateOverallUIState(
               [page EXCEPT !.error = IF ok THEN @ ELSE TRUE,
                            !.progress = IF ok /\ ~page.error THEN 100 ELSE @,
                            !.isPacking = FALSE])
  /\ runs' = RemoveAt(runs, i)
  /\ UNCHANGED loads
  /\ UiFrame

Detached(rs) == [k \in DOMAIN rs |-> [rs[k] EXCEPT !.attached = FALSE]]

\* a click on the Download Post button, which lies under the overlay:
\* showDownloadConfirmationModal
ClickDownloadPost ==
  /\ page.kind = "post"
  /\ ~page.overlay
  /\ page' = [page EXCEPT !.overlay = TRUE, !.confirmBtn = FALSE]
  /\ runs' = Detached(runs)
  /\ UNCHANGED loads
  /\ UiFrame

\* cancelBtn.onclick
ClickCancel ==
  /\ page.kind = "post"
  /\ page.overlay
  /\ page' = [page EXCEPT !.overlay = FALSE]
  /\ runs' = Detached(runs)
  /\ UNCHANGED loads
  /\ UiFrame

\* confirmBtn.onclick up to the dynamic import
ClickConfirm ==
  /\ page.kind = "post"
  /\ page.overlay
  /\ ~page.confirmBtn
  /\ Len(runs) < MaxRuns
  /\ page' = [page EXCEPT !.confirmBtn = TRUE]
  /\ runs' = Append(runs, [pc |-> "import", attached |-> TRUE])
  /\ UNCHANGED loads
  /\ UiFrame

\* the catch block of confirmBtn.onclick: the button of the run's own
\* modal becomes Retry
ConfirmFailed(i) ==
  /\ page' = IF runs[i].attached THEN [page EXCEPT !.confirmBtn = FALSE] ELSE page
  /\ runs' = RemoveAt(runs, i)

\* the dynamic import of EpubGenerator.js settles
ImportSettles(i, ok) ==
  /\ page.kind = "post"
  /\ i \in DOMAIN runs
  /\ runs[i].pc = "import"
  /\ IF ok
     THEN /\ runs' = [runs EXCEPT ![i].pc = "generating"]
          /\ page' = page
     ELSE ConfirmFailed(i)
  /\ UNCHANGED loads
  /\ UiFrame

\* generateKemonoEpub settles in confirmBtn.onclick
PostRunSettles(i, ok) ==
  /\ page.kind = "post"
  /\ i \in DOMAIN runs
  /\ runs[i].pc = "generating"
  /\ IF ok
     THEN /\ runs' = [runs EXCEPT ![i].pc = "timer"]
          /\ page' = page
     ELSE ConfirmFailed(i)
  /\ UNCHANGED loads
  /\ UiFrame

\* setTimeout(() => overlay.remove(), 1000) fires
CloseTimer(i) ==
  /\ page.kind = "post"
  /\ i \in DOMAIN runs
  /\ runs[i].pc = "timer"
  /\ page' = IF runs[i].attached THEN [page EXCEPT !.overlay = FALSE] ELSE page
  /\ runs' = RemoveAt(Detached(runs), i)
  /\ UNCHANGED loads
  /\ UiFrame

\* the promises of the page settle
UiSettle ==
  \/ \E i \in 1..MaxLoads, ok \in BOOLEAN : ProfileSettles(i, ok)
  \/ \E i \in 1..MaxLoads, ok \in BOOLEAN : PageSettles(i, ok)
  \/ \E i \in 1..MaxRuns, ok \in BOOLEAN : PackSettles(i, ok)
  \/ \E i \in 1..MaxRuns, ok \in BOOLEAN : ImportSettles(i, ok)
  \/ \E i \in 1..MaxRuns, ok \in BOOLEAN : PostRunSettles(i, ok)
  \/ \E i \in 1..MaxRuns : CloseTimer(i)

UiNext ==
  \/ \E newTag \in UiFilters : handleApplyFilter(newTag)
  \/ handleLoadMore
  \/ handleLoadAll
  \/ \E postId \in ToggledIds : handlePostSelectionChange(postId)
  \/ handlePackEpub
  \/ \E i \in 1..MaxRuns, currentProgress \in ProgressSteps : PackProgress(i, currentProgress)
  \/ ClickDownloadPost
  \/ ClickCancel
  \/ ClickConfirm
  \/ UiSettle

SpecUi == UiInit /\ [][UiNext]_vars

\* every promise of the page settles: a fetch answers or fails, a run
\* resolves or throws
SpecUiLive == SpecUi /\ WF_vars(UiSettle)

(***************************************************************************)
(* KemonoContentParser.fetchPostFullData called for any post id, whatever  *)
(* the detail endpoint answers.  A cache entry is [id, detail]: the key    *)
(* the detail was stored under, and the detail.                            *)
(***************************************************************************)
\* a detail object with no id field
NoIdDetail == [hasId |-> FALSE, id |-> <<>>, title |-> <<>>]

\* the detail objects the endpoint is seen to answer with: no id, an empty
\* id, or the id of a post
DetailPool ==
  {NoIdDetail, [hasId |-> TRUE, id |-> <<>>, title |-> Str_Untitled]}
    \cup {[hasId |-> TRUE, id |-> PostId(k), title |-> t] : k \in 1..2, t \in {<<>>, Str_Untitled}}

\* what HttpClient.fetchJson does: it throws, or answers with data that
\* has a post field or is the detail itself
DetailResponses ==
  {[failed |-> f, hasPost |-> w, post |-> p, own |-> o] :
     f \in BOOLEAN, w \in BOOLEAN, p \in {NoIdDetail, [hasId |-> TRUE, id |-> PostId(1), title |-> <<>>]},
     o \in DetailPool}

\* data.post || data
PostDetailOf(data) == IF data.hasPost THEN data.post ELSE data.own

\* !postDetail.id
LacksId(postDetail) == ~postDetail.hasId \/ postDetail.id = <<>>

\* the detail is stored before it is looked at
fetchPostFullData_CacheFirst(cache, postId, response) ==
  IF CacheHas(cache, postId)
  THEN [postCache |-> cache, asked |-> FALSE, threw |-> FALSE,
        value |-> CacheGet(cache, postId).detail]
  ELSE IF response.failed
  THEN [postCache |-> cache, asked |-> TRUE, threw |-> TRUE, value |-> NoIdDetail]
  ELSE [postCache |-> cache \cup {[id |-> postId, detail |-> PostDetailOf(response)]},
        asked |-> TRUE, threw |-> LacksId(PostDetailOf(response)),
        value |-> PostDetailOf(response)]

\* fetchPostFullData(postId): the cache after the call, whether the detail
\* endpoint was asked, whether the call threw, and the value returned
fetchPostFullData(cache, postId, response) ==
  IF CacheHas(cache, postId)
  THEN [postCache |-> cache, asked |-> FALSE, threw |-> FALSE,
        value |-> CacheGet(cache, postId).detail]
  ELSE IF response.failed \/ LacksId(PostDetailOf(response))
  THEN [postCache |-> cache, asked |-> TRUE, threw |-> TRUE, value |-> NoIdDetail]
  ELSE [postCache |-> cache \cup {[id |-> postId, detail |-> PostDetailOf(response)]},
        asked |-> TRUE, threw |-> FALSE, value |-> PostDetailOf(response)]

NoFetch ==
  [asked |-> FALSE, threw |-> FALSE, value |-> NoIdDetail,
   response |-> [failed |-> FALSE, hasPost |-> FALSE, post |-> NoIdDetail, own |-> NoIdDetail]]

DetailInit ==
  /\ pc = "parser"
  /\ selectedPostStubs = <<>>
  /\ coverImageUrl = FALSE
  /\ idx = 0
  /\ packer = NewEpubPacker
  /\ usedFilenames = {}
  /\ processedPosts = <<>>
  /\ postCache = {}
  /\ bases = <<>>
  /\ chapters = <<>>
  /\ coverFailed = FALSE
  /\ failedPost = 0
  /\ downloaded = FALSE
  /\ packed = FALSE
  /\ lastCall = NoCall
  /\ ops = <<>>
  /\ npost = EmptyPost
  /\ noutcomes = <<>>
  /\ nresult = EmptyResult
  /\ HistoryEmpty
  /\ LimiterUnused
  /\ FirefoxUnused
  /\ SanitizerUnused
  /\ UiUnused
  /\ fetched = NoFetch

\* one call of fetchPostFullData
FetchDetail(postId, response) ==
  /\ pc = "parser"
  /\ LET call == fetchPostFullData(postCache, postId, response)
     IN  /\ postCache' = call.postCache
         /\ fetched' = [asked |-> call.asked, threw |-> call.threw, value |-> call.value,
                        response |-> IF call.asked THEN response ELSE NoFetch.response]
  /\ UNCHANGED <<pc, selectedPostStubs, coverImageUrl, idx, packer, usedFilenames, processedPosts,
                 bases, chapters, coverFailed, failedPost, downloaded, packed, lastCall,
                 ops, npost, noutcomes, nresult, histVars, limiterVars, fxVars, sanVars, uiVars>>

DetailNext == \E k \in 1..2, response \in DetailResponses : FetchDetail(PostId(k), response)

SpecDetail == DetailInit /\ [][DetailNext]_vars

(***************************************************************************)
(* The second generateKemonoEpub and EpubPacker of                         *)
(* src/Chromium/EpubGenerator.js (lines 1181-1682).  addStylesheet and     *)
(* addImageToManifest do what those of the first packer do; the posts of   *)
(* a run have no inline image here, and selectedPostStubs holds the title  *)
(* of each post's detail.                                                  *)
(***************************************************************************)
\* id.startsWith("ch-")
IsChapterId(id) == Len(id) >= Len(Str_ch_) /\ SubSeq(id, 1, Len(Str_ch_)) = Str_ch_

\* addCoverImage of the second packer: the cover is stored as PNG
addCoverImage2(P) == addCoverImage(P, Str_cover_dot \o Ext_png, "image/png")

\* the spine insertion of the second addChapter
ChapterSpine2(spineOrder, chapterId) ==
  IF Includes(spineOrder, Str_cover_xhtml)
    THEN SpliceIn(spineOrder, IndexOf(spineOrder, Str_cover_xhtml) + 1, chapterId)
  ELSE IF Includes(spineOrder, Str_toc)
    THEN SpliceIn(spineOrder, IndexOf(spineOrder, Str_toc) + 1, chapterId)
  ELSE Append(spineOrder, chapterId)

\* addChapter of the second packer
addChapter2(P, title, chapterId) ==
  LET baseStrict == sanitizeBasenameForXhtmlStrict(
                      IF title # <<>> THEN title
                      ELSE Str_Chapter_ \o NatToString(P.fileCounter + 1))
      fileName   == baseStrict \o Str_xhtml
  IN  [P EXCEPT
        !.fileCounter = @ + 1,
        !.zip = ZipFile(@, Path_Text \o fileName),
        !.manifestItems = Append(@, ManifestItem(chapterId, Str_Text_ \o fileName, XhtmlType, "")),
        !.spineOrder = ChapterSpine2(@, chapterId)]

\* the chapter id addTableOfContents looks for
TocChapterId(post) == Str_ch_ \o sanitizeBasenameForXhtmlStrict(post.title)

\* sortedChapters: the ids of the posts, in their order, that are among the
\* chapter ids of the spine
SortedChapters(posts, chapterIds) ==
  LET ids == [k \in DOMAIN posts |-> TocChapterId(posts[k])]
  IN  SelectSeq(ids, LAMBDA id : Includes(chapterIds, id))

\* the spine after addTableOfContents of the second packer
RebuildSpine(spineOrder, posts) ==
  LET withToc     == IF Includes(spineOrder, Str_toc) THEN spineOrder ELSE TocSpine(spineOrder)
      chapterIds  == SelectSeq(withToc, IsChapterId)
      nonChapters == SelectSeq(withToc, LAMBDA id : ~IsChapterId(id))
  IN  nonChapters \o SortedChapters(posts, chapterIds)

\* addTableOfContents of the second packer, posts not empty
addTableOfContents2(P, posts) ==
  [P EXCEPT
    !.zip = ZipFile(@, Path_Text \o Str_toc_file),
    !.manifestItems = Append(@, ManifestItem(Str_toc, Str_Text_ \o Str_toc_file, XhtmlType, "nav")),
    !.spineOrder = RebuildSpine(@, posts),
    !.tocEntries = [k \in DOMAIN posts |->
                      [rawTitle |-> posts[k].title,
                       href |-> Str_Text_ \o sanitizeBasenameForXhtmlStrict(posts[k].title)
                                  \o Str_xhtml]]]

\* the titles of the details of a run
Titles2 == { <<>>, <<"A">>, <<"B">> }

Repack2Init ==
  /\ pc = "v2_cover"
  /\ selectedPostStubs \in UNION {[1..n -> Titles2] : n \in 0..MaxPosts}
  /\ coverImageUrl \in BOOLEAN
  /\ idx = 0
  /\ packer = addStylesheet(NewEpubPacker)
  /\ usedFilenames = {}
  /\ processedPosts = <<>>
  /\ postCache = {}
  /\ bases = <<>>
  /\ chapters = <<>>
  /\ coverFailed = FALSE
  /\ failedPost = 0
  /\ downloaded = FALSE
  /\ packed = FALSE
  /\ lastCall = NoCall
  /\ ops = <<>>
  /\ npost = EmptyPost
  /\ noutcomes = <<>>
  /\ nresult = EmptyResult
  /\ HistoryEmpty
  /\ LimiterUnused
  /\ FirefoxUnused
  /\ OthersUnused

Repack2Frame ==
  UNCHANGED <<selectedPostStubs, coverImageUrl, usedFilenames, postCache, bases, chapters,
              failedPost, downloaded, lastCall, ops, npost, noutcomes, nresult, histVars,
              limiterVars, fxVars, otherVars>>

\* lines 1243-1252: the cover, whose failure is caught
V2CoverStep ==
  /\ pc = "v2_cover"
  /\ \E ok \in BOOLEAN :
       IF coverImageUrl /\ ok
       THEN packer' = addCoverImage2(packer) /\ UNCHANGED coverFailed
       ELSE UNCHANGED packer /\ coverFailed' = coverImageUrl
  /\ pc' = "v2_posts"
  /\ UNCHANGED <<idx, processedPosts, packed>>
  /\ Repack2Frame

\* lines 1283-1313: one turn of the per-post loop, the detail fetched
V2PostStep ==
  /\ pc = "v2_posts"
  /\ idx < Len(selectedPostStubs)
  /\ LET title      == selectedPostStubs[idx + 1]
         shown      == IF title # <<>> THEN title ELSE Str_Untitled
         baseStrict == sanitizeBasenameForXhtmlStrict(
                         IF title # <<>> THEN title ELSE Str_Chapter_ \o NatToString(idx))
     IN  /\ processedPosts' = Append(processedPosts, [title |-> shown, id |-> NatToString(idx + 1)])
         /\ packer' = addChapter2(packer, shown, Str_ch_ \o baseStrict)
  /\ idx' = idx + 1
  /\ UNCHANGED <<pc, coverFailed, packed>>
  /\ Repack2Frame

\* lines 1315-1318: the contents page
V2TocStep ==
  /\ pc = "v2_posts"
  /\ idx = Len(selectedPostStubs)
  /\ packer' = IF Len(processedPosts) > 0 THEN addTableOfContents2(packer, processedPosts)
               ELSE packer
  /\ pc' = "v2_pack"
  /\ UNCHANGED <<idx, processedPosts, coverFailed, packed>>
  /\ Repack2Frame

\* lines 1320-1327: packToBlob, which adds container.xml, content.opf and
\* toc.ncx to the archive
V2PackStep ==
  /\ pc = "v2_pack"
  /\ packer' = packToBlob(packer)
  /\ packed' = TRUE
  /\ pc' = "v2_done"
  /\ UNCHANGED <<idx, processedPosts, coverFailed>>
  /\ Repack2Frame

Repack2Next == V2CoverStep \/ V2PostStep \/ V2TocStep \/ V2PackStep

SpecRepack2 == Repack2Init /\ [][Repack2Next]_vars

(***************************************************************************)
(* The EpubPacker and generateKemonoEpub of src/Firefox/background.js.     *)
(* zip holds the paths of the archive under OEBPS/, opf the manifest of    *)
(* content.opf once packToBlob has written it.  The posts of a run have no  *)
(* inline image, and selectedPostStubs holds the title of each post's      *)
(* detail.                                                                 *)
(***************************************************************************)
Str_toc_page == <<"t","o","c","-","p","a","g","e">>
Str_toc_page_file == <<"t","o","c","_","p","a","g","e",".","x","h","t","m","l">>
Str_nav == <<"n","a","v">>
Str_ncx == <<"n","c","x">>

\* new EpubPacker(metadata)
BgNewEpubPacker ==
  [zip |-> <<>>, manifestItems |-> <<>>, spineOrder |-> <<>>, tocEntries |-> <<>>,
   fileCounter |-> 0, epubVersion |-> "3.0", opf |-> <<>>]

\* EpubPacker.addStylesheet
BgAddStylesheet(P) ==
  [P EXCEPT !.zip = ZipFile(@, Str_styles_href),
            !.manifestItems = Append(@, ManifestItem(Str_css, Str_styles_href, "text/css", ""))]

\* EpubPacker.addCoverImage
BgAddCoverImage(P, fileNameInEpub, mimeType) ==
  [P EXCEPT
    !.zip = ZipFile(ZipFile(@, Str_Images_ \o fileNameInEpub), Str_Text_ \o Str_cover_file),
    !.manifestItems = @ \o << ManifestItem(Str_cover_image, Str_Images_ \o fileNameInEpub,
                                           mimeType, "cover-image"),
                              ManifestItem(Str_cover_xhtml, Str_Text_ \o Str_cover_file,
                                           XhtmlType, "") >>,
    !.spineOrder = Unshift(@, Str_cover_xhtml)]

\* EpubPacker.addChapter(title, htmlContent)
BgAddChapter(P, title) ==
  LET baseStrict == sanitizeBasenameForXhtmlStrict(
                      IF title # <<>> THEN title
                      ELSE Str_Chapter_ \o NatToString(P.fileCounter + 1))
      pathInEpub == Str_Text_ \o baseStrict \o Str_xhtml
      idBase     == ToLowerCase(baseStrict)
      chapterId  == Str_ch_ \o (IF idBase # <<>> THEN idBase
                                ELSE NatToString(P.fileCounter + 1))
  IN  [P EXCEPT
        !.fileCounter = @ + 1,
        !.zip = ZipFile(@, pathInEpub),
        !.manifestItems = Append(@, ManifestItem(chapterId, pathInEpub, XhtmlType, "")),
        !.spineOrder = Append(@, chapterId),
        !.tocEntries = Append(@, [rawTitle |-> IF title # <<>> THEN title
                                               ELSE <<"U","n","t","i","t","l","e","d">>,
                                  href |-> pathInEpub])]

\* EpubPacker.addTableOfContentsPage
BgAddTableOfContentsPage(P) ==
  IF Len(P.tocEntries) <= 1 THEN P
  ELSE LET insertIndex == IF Includes(P.spineOrder, Str_cover_xhtml)
                          THEN IndexOf(P.spineOrder, Str_cover_xhtml) + 1 ELSE 0
       IN  [P EXCEPT
             !.zip = ZipFile(@, Str_Text_ \o Str_toc_page_file),
             !.manifestItems = Append(@, ManifestItem(Str_toc_page,
                                                      Str_Text_ \o Str_toc_page_file,
                                                      XhtmlType, "nav")),
             !.spineOrder = SpliceIn(@, insertIndex, Str_toc_page)]

\* EpubPacker.buildContentOpf: the items of the manifest element
BgBuildContentOpf(P) ==
  P.manifestItems
    \o <<ManifestItem(Str_ncx, <<"t","o","c",".","n","c","x">>, "application/x-dtbncx+xml", "")>>
    \o (IF P.epubVersion = "3.0"
        THEN <<ManifestItem(Str_nav, <<"t","o","c",".","x","h","t","m","l">>, XhtmlType, "nav")>>
        ELSE <<>>)

\* EpubPacker.packToBlob
BgPackToBlob(P) ==
  LET written == ZipFile(ZipFile(P.zip, <<"c","o","n","t","e","n","t",".","o","p","f">>),
                         <<"t","o","c",".","n","c","x">>)
  IN  [P EXCEPT !.opf = BgBuildContentOpf(P),
                !.zip = IF P.epubVersion = "3.0"
                        THEN ZipFile(written, <<"t","o","c",".","x","h","t","m","l">>)
                        ELSE written]

\* the titles of the details of a run: equal after sanitizing, equal but for
\* the case, or missing
BgTitles == { <<"A">>, <<"A","!">>, <<"a">>, <<>> }

BackgroundInit ==
  /\ pc = "bg_cover"
  /\ selectedPostStubs \in UNION {[1..n -> BgTitles] : n \in 0..MaxPosts}
  /\ coverImageUrl \in BOOLEAN
  /\ idx = 0
  /\ packer = BgAddStylesheet(BgNewEpubPacker)
  /\ usedFilenames = {}
  /\ processedPosts = <<>>
  /\ postCache = {}
  /\ bases = <<>>
  /\ chapters = <<>>
  /\ coverFailed = FALSE
  /\ failedPost = 0
  /\ downloaded = FALSE
  /\ packed = FALSE
  /\ lastCall = NoCall
  /\ ops = <<>>
  /\ npost = EmptyPost
  /\ noutcomes = <<>>
  /\ nresult = EmptyResult
  /\ HistoryEmpty
  /\ LimiterUnused
  /\ FirefoxUnused
  /\ OthersUnused

BackgroundFrame ==
  UNCHANGED <<selectedPostStubs, coverImageUrl, usedFilenames, processedPosts, postCache, bases,
              chapters, failedPost, downloaded, lastCall, ops, npost, noutcomes, nresult,
              histVars, limiterVars, fxVars, otherVars>>

\* the cover, whose failure is caught
BgCoverStep ==
  /\ pc = "bg_cover"
  /\ \E ok \in BOOLEAN :
       IF coverImageUrl /\ ok
       THEN /\ packer' = BgAddCoverImage(packer, Str_cover_dot \o Ext_jpg, "image/jpeg")
            /\ UNCHANGED coverFailed
       ELSE UNCHANGED packer /\ coverFailed' = coverImageUrl
  /\ pc' = "bg_posts"
  /\ UNCHANGED <<idx, packed>>
  /\ BackgroundFrame

\* lines 680-726: one turn of the per-post loop; a post whose fetch or
\* processing throws adds no chapter
BgPostStep ==
  /\ pc = "bg_posts"
  /\ idx < Len(selectedPostStubs)
  /\ \E ok \in BOOLEAN :
       packer' = IF ok
                 THEN BgAddChapter(packer, IF selectedPostStubs[idx + 1] # <<>>
                                           THEN selectedPostStubs[idx + 1] ELSE Str_Untitled)
                 ELSE packer
  /\ idx' = idx + 1
  /\ UNCHANGED <<pc, coverFailed, packed>>
  /\ BackgroundFrame

\* lines 728-741: the contents page and packToBlob
BgPackStep ==
  /\ pc = "bg_posts"
  /\ idx = Len(selectedPostStubs)
  /\ packer' = BgPackToBlob(IF Len(packer.tocEntries) > 1
                            THEN BgAddTableOfContentsPage(packer) ELSE packer)
  /\ packed' = TRUE
  /\ pc' = "bg_done"
  /\ UNCHANGED <<idx, coverFailed>>
  /\ BackgroundFrame

BackgroundNext == BgCoverStep \/ BgPostStep \/ BgPackStep

SpecBackground == BackgroundInit /\ [][BackgroundNext]_vars

(***************************************************************************)
(* The EpubPacker used directly: its operations in any order.  Each of     *)
(* addStylesheet, addCoverImage, addTableOfContents and packToBlob is      *)
(* called at most once and every chapter id is new, as generateKemonoEpub  *)
(* calls them; nothing in the class restricts the order, and nothing       *)
(* refuses a call made after packToBlob.                                   *)
(***************************************************************************)
ApiChapterIds == { Str_ch_ \o <<"a">>, Str_ch_ \o <<"b">>, Str_ch_ \o <<"c">> }

ApiImageNames == { <<"x",".","p","n","g">>, <<"y",".","p","n","g">> }

Called(op) == \E k \in DOMAIN ops : ops[k] = op

\* the posts argument of addTableOfContents: the chapters added so far
PostsOf(chapterIds) ==
  [k \in DOMAIN chapterIds |-> [title |-> StripChPrefix(chapterIds[k]),
                                id |-> NatToString(k),
                                filename |-> StripChPrefix(chapterIds[k])]]

ApiInit ==
  /\ pc = "api"
  /\ selectedPostStubs = <<>>
  /\ coverImageUrl = FALSE
  /\ idx = 0
  /\ packer = NewEpubPacker
  /\ usedFilenames = {}
  /\ processedPosts = <<>>
  /\ postCache = {}
  /\ bases = <<>>
  /\ chapters = <<>>
  /\ coverFailed = FALSE
  /\ failedPost = 0
  /\ downloaded = FALSE
  /\ packed = FALSE
  /\ lastCall = NoCall
  /\ ops = <<>>
  /\ npost = EmptyPost
  /\ noutcomes = <<>>
  /\ nresult = EmptyResult
  /\ HistoryEmpty
  /\ LimiterUnused
  /\ FirefoxUnused
  /\ OthersUnused

ApiFrame == UNCHANGED <<pc, selectedPostStubs, coverImageUrl, idx, usedFilenames, processedPosts,
                        postCache, bases, coverFailed, failedPost, downloaded, npost, noutcomes,
                        nresult, detailRequests, bulkRequests, prefetched, chapterHtml,
                        limiterVars, fxVars, otherVars>>

ApiCall(op, P) ==
  /\ pc = "api"
  /\ Len(ops) < MaxOps
  /\ packer' = P
  /\ lastCall' = Call(op, packer, P)
  /\ ops' = Append(ops, op)
  /\ ApiFrame

ApiAddStylesheet ==
  /\ ~Called("addStylesheet")
  /\ ApiCall("addStylesheet", addStylesheet(packer))
  /\ UNCHANGED <<chapters, packed, lastArg>>

ApiAddCoverImage ==
  /\ ~Called("addCoverImage")
  /\ ApiCall("addCoverImage", addCoverImage(packer, Str_cover_dot \o Ext_jpg, "image/jpeg"))
  /\ UNCHANGED <<chapters, packed, lastArg>>

ApiAddImageToManifest ==
  /\ \E name \in ApiImageNames :
       /\ ApiCall("addImageToManifest",
                  addImageToManifest(packer, [fileNameInEpub |-> name, mimeType |-> "image/png"]))
       /\ lastArg' = name
  /\ UNCHANGED <<chapters, packed>>

ApiAddChapter ==
  /\ \E chapterId \in ApiChapterIds :
       /\ ~Includes(chapters, chapterId)
       /\ ApiCall("addChapter", addChapter(packer, StripChPrefix(chapterId), chapterId))
       /\ chapters' = Append(chapters, chapterId)
  /\ UNCHANGED <<packed, lastArg>>

ApiAddTableOfContents ==
  /\ ~Called("addTableOfContents")
  /\ ApiCall("addTableOfContents", addTableOfContents(packer, PostsOf(chapters)))
  /\ UNCHANGED <<chapters, packed, lastArg>>

ApiPackToBlob ==
  /\ ~Called("packToBlob")
  /\ ApiCall("packToBlob", packToBlob(packer))
  /\ packed' = TRUE
  /\ UNCHANGED <<chapters, lastArg>>

ApiNext ==
  \/ ApiAddStylesheet
  \/ ApiAddCoverImage
  \/ ApiAddImageToManifest
  \/ ApiAddChapter
  \/ ApiAddTableOfContents
  \/ ApiPackToBlob

SpecPacker == ApiInit /\ [][ApiNext]_vars

(***************************************************************************)
(* processPostImagesAndContent on its own, over the markup of one post     *)
(***************************************************************************)
\* number of img and a elements of the post's markup
MaxElems == 3

ElementPool ==
  { Img(Url_a), Img(Url_a_root), Img(Url_b), Img(NoAttr), Anchor(Url_a_root), Anchor(Url_b_http) }

Documents == UNION { [1..n -> ElementPool] : n \in 0..MaxElems }

NormInit ==
  /\ pc = "normalize"
  /\ selectedPostStubs = <<>>
  /\ coverImageUrl = FALSE
  /\ idx = 0
  /\ packer = NewEpubPacker
  /\ usedFilenames = {}
  /\ processedPosts = <<>>
  /\ postCache = {}
  /\ bases = <<>>
  /\ chapters = <<>>
  /\ coverFailed = FALSE
  /\ failedPost = 0
  /\ downloaded = FALSE
  /\ packed = FALSE
  /\ lastCall = NoCall
  /\ ops = <<>>
  /\ npost \in { [id |-> PostId(1), title |-> <<"t">>, content |-> d] : d \in Documents }
  /\ noutcomes = <<>>
  /\ nresult = EmptyResult
  /\ HistoryEmpty
  /\ LimiterUnused
  /\ FirefoxUnused
  /\ OthersUnused

Normalize ==
  /\ pc = "normalize"
  /\ \E outcomes \in [1..NumImgs(npost.content) -> FetchOutcomes] :
       /\ noutcomes' = outcomes
       /\ nresult' = processPostImagesAndContent([id |-> npost.id, content |-> npost.content], outcomes)
  /\ pc' = "normalized"
  /\ UNCHANGED <<selectedPostStubs, coverImageUrl, idx, packer, usedFilenames, processedPosts,
                 postCache, bases, chapters, coverFailed, failedPost, downloaded, packed, lastCall,
                 ops, npost>>
  /\ UNCHANGED <<histVars, limiterVars, fxVars, otherVars>>

NormNext == Normalize

SpecNormalizer == NormInit /\ [][NormNext]_vars

(***************************************************************************)
(* Properties                                                              *)
(***************************************************************************)
\* the manifest of content.opf (buildContentOpf): the items of the packer
\* and the ncx item
OpfManifest(P) ==
  Append(P.manifestItems,
         ManifestItem(<<"n","c","x">>, <<"t","o","c",".","n","c","x">>, "application/x-dtbncx+xml", ""))

\* the spine restricted to the chapter ids
SpineChapters == SelectIn(packer.spineOrder, Range(chapters))

HasCoverEntry == Includes(packer.spineOrder, Str_cover_xhtml)

Count(arr, x) == Cardinality({k \in DOMAIN arr : arr[k] = x})

\* C1: when the run has packed the archive, the spine restricted to the
\* chapter ids is the sequence of the chapters in the order of their
\* addChapter calls.
C1_SpineOrder == pc = "done" => SpineChapters = chapters

\* C2: in the manifest of a produced archive no two items share an id and no
\* two items share an href.
C2_ManifestUnique ==
  pc = "done" =>
    LET m == OpfManifest(packer)
    IN  \A j, k \in DOMAIN m : j < k => (m[j].id # m[k].id /\ m[j].href # m[k].href)

\* C3: a post whose detail fetch failed never aborts the run.
C3_PostFailureSkipped == failedPost # 0 => pc # "aborted"

\* C4: a produced archive with exactly one chapter has no contents page in
\* the manifest and none in the spine; one with two or more chapters has
\* exactly one, at spine position 1 after a cover and at position 0 otherwise.
C4_ContentsPage ==
  pc = "done" =>
    LET tocItems == Cardinality({k \in DOMAIN packer.manifestItems : packer.manifestItems[k].id = Str_toc})
        tocRefs == Count(packer.spineOrder, Str_toc)
    IN  /\ Len(chapters) = 1 => (tocItems = 0 /\ tocRefs = 0)
        /\ Len(chapters) >= 2 =>
             /\ tocItems = 1
             /\ tocRefs = 1
             /\ IndexOf(packer.spineOrder, Str_toc) = (IF HasCoverEntry THEN 1 ELSE 0)

\* C5: once addCoverImage has been called, in any order with addChapter and
\* addTableOfContents, the cover page is the first entry of the spine.
C5_CoverFirst ==
  Called("addCoverImage") => (packer.spineOrder # <<>> /\ packer.spineOrder[1] = Str_cover_xhtml)

\* the cover was added after a chapter and the contents page, and a chapter
\* was added after it
C5_Witness ==
  /\ ops = <<"addChapter", "addTableOfContents", "addCoverImage", "addChapter">>
  /\ Len(packer.spineOrder) = 4

\* name is base followed by _NN
HasNumericSuffix(name, base) ==
  \E n \in 1..(Len(bases) + 1) : name = base \o <<"_">> \o PadStart2(NatToString(n))

\* the manifest items of the chapters
ChapterItems == SelectSeq(packer.manifestItems, LAMBDA it : it.id \in Range(chapters))

\* C6: a chapter whose sanitized basename equals, ignoring case, that of an
\* earlier chapter carries a numeric suffix, and the manifest ids and the
\* hrefs of the chapters are pairwise distinct ignoring case.
C6_CaseInsensitiveUnique ==
  LET items  == ChapterItems
      ids    == [j \in DOMAIN items |-> ToLowerCase(items[j].id)]
      hrefs  == [j \in DOMAIN items |-> ToLowerCase(items[j].href)]
      lowers == [j \in DOMAIN bases |-> ToLowerCase(bases[j])]
  IN  /\ Len(items) = Len(processedPosts)
      /\ \A j, k \in DOMAIN processedPosts : j < k =>
           /\ ids[j] # ids[k]
           /\ hrefs[j] # hrefs[k]
           /\ lowers[j] = lowers[k]
                => HasNumericSuffix(processedPosts[k].filename, bases[k])

\* three chapters whose basenames are equal ignoring case and not all equal
C6_Witness ==
  /\ pc = "done"
  /\ Len(bases) = 3
  /\ ToLowerCase(bases[1]) = ToLowerCase(bases[2])
  /\ ToLowerCase(bases[2]) = ToLowerCase(bases[3])
  /\ bases[1] # bases[2]
  /\ bases[2] = bases[3]

RECURSIVE ImgPositions(_, _)
\* the places in the document of its img elements, in document order
ImgPositions(doc, k) ==
  IF k > Len(doc) THEN <<>>
  ELSE (IF doc[k].tag = "img" THEN <<k>> ELSE <<>>) \o ImgPositions(doc, k + 1)

\* the img elements that have a src: their indices among the img elements
ImgsWithSrc ==
  {i \in 0..(NumImgs(npost.content) - 1) : npost.content[ImgPositions(npost.content, 1)[i + 1]].val # NoAttr}

ImgUrl(i) == normalizeUrl(npost.content[ImgPositions(npost.content, 1)[i + 1]].val)

ImgFailed(i) == noutcomes[i + 1] = "fail" \/ ~processImageBlob(noutcomes[i + 1]).ok

\* C7: two img elements of one post that resolve to the same URL cause one
\* fetch of that URL, at most one asset descriptor for it, and end with the
\* same reference.
C7_DedupSameUrl ==
  pc = "normalized" =>
    \A i, j \in ImgsWithSrc : (i < j /\ ImgUrl(i) = ImgUrl(j)) =>
      /\ Count(nresult.fetched, ImgUrl(i)) = 1
      /\ Cardinality({d \in DOMAIN nresult.imagesToPackage :
                        nresult.imagesToPackage[d].originalUrl = ImgUrl(i)}) <= 1
      /\ nresult.updatedHtml[ImgPositions(npost.content, 1)[i + 1]].val
           = nresult.updatedHtml[ImgPositions(npost.content, 1)[j + 1]].val

\* the element at place k refers to the image of the img element of index i:
\* it is that element, it resolves to the same URL, or its value is the
\* partial path under which _rewriteAllImageReferences registers that URL
RefersToImage(k, i) ==
  \/ k = ImgPositions(npost.content, 1)[i + 1]
  \/ /\ npost.content[k].val # NoAttr
     /\ \/ normalizeUrl(npost.content[k].val) = ImgUrl(i)
        \/ npost.content[k].val = PartialPath(ImgUrl(i))

\* the same call, had the fetch of the img element of index i answered a JPEG
HadSucceeded(i) ==
  processPostImagesAndContent([id |-> npost.id, content |-> npost.content],
                              [noutcomes EXCEPT ![i + 1] = "image/jpeg"])

C9_CoverFailureCompletes ==
  coverFailed =>
    /\ pc # "aborted"
    /\ pc = "done" =>
         /\ downloaded
         /\ ~HasCoverEntry
         /\ \A k \in DOMAIN packer.manifestItems :
              packer.manifestItems[k].id \notin {Str_cover_image, Str_cover_xhtml}

\* C10: an add operation called after packToBlob changes nothing in the packer.
C10_SealedRejects ==
  (packed /\ lastCall.op # "packToBlob") => ~lastCall.changed

SelectedIds == {selectedPostStubs[k].id : k \in DOMAIN selectedPostStubs}

\* C13: every request to the detail endpoint is for a post id that is not in
\* the cache when it is made (not seeded from a stub, not prefetched, not
\* stored by an earlier detail fetch) and that was not requested before.
C13_AtMostOneDetailFetch ==
  [][detailRequests' # detailRequests =>
       LET id == detailRequests'[Len(detailRequests')]
       IN  /\ detailRequests' = Append(detailRequests, id)
           /\ id \notin CacheIds(postCache)
           /\ id \notin Range(detailRequests)]_vars

\* a finished run in which one post came from the prefetch and two from the
\* detail endpoint
C13_Witness ==
  ~(pc = "done" /\ Len(detailRequests) >= 2 /\ prefetched # {})

\* C14: every list-page offset of the bulk prefetch is asked for whatever the
\* earlier pages answered, and when the run has ended every selected post
\* that the prefetch left out of the cache has been asked for at the detail
\* endpoint.
C14_BulkFailureDegrades ==
  /\ pc \in {"posts", "pack", "done", "aborted"} =>
       /\ Range(bulkRequests) = OffsetsToFetch(PostsNeedingFetch(selectedPostStubs))
       /\ \A j, k \in DOMAIN bulkRequests : j < k => bulkRequests[j] < bulkRequests[k]
  /\ pc \in {"done", "aborted"} =>
       \A id \in SelectedIds : id \notin prefetched => id \in Range(detailRequests)

\* the release times are at least API_CALL_DELAY apart
Spaced(times) ==
  \A k \in DOMAIN times : k > 1 => times[k] - times[k - 1] >= API_CALL_DELAY

\* C11: with the promise chain, the times at which successive callers are
\* released are at least API_CALL_DELAY apart, however the calls and the
\* clock interleave.
C11_QueueSpacing == pc = "limiter" => Spaced(released)

\* every caller called at the same instant, and every one has been released
C11_Witness ==
  ~(/\ Len(released) = MaxCallers
    /\ \A c \in CallerIds : callers[c].pc = "released" /\ (c > 1 => callers[c].overlapped))

\* C12: with the last-call timestamp alone, no two callers are released
\* closer together than API_CALL_DELAY, also when several of them read
\* lastApiCallTime before any of them writes it.
C12_StampSpacing ==
  \A j, k \in DOMAIN released : j < k => released[k] - released[j] >= API_CALL_DELAY

Sorted(log) == \A k \in 1..(Len(log) - 1) : ~Less(log[k + 1], log[k])

\* C15: in every run the percentages given to the progress callback, the
\* message-only calls of percentage -1 left aside, never decrease
C15_ProgressMonotone == pc = "firefox" => Sorted(fxProgress)

\* C16: in every archive packToBlob produces, the first entry is mimetype,
\* stored without compression, and its content is application/epub+zip
C16_MimetypeFirst ==
  (pc = "firefox" /\ fxPc = "done") =>
    /\ Head(fxPacker.zip) = ZipEntry("mimetype", "STORE")
    /\ fxPacker.mimetype = "application/epub+zip"

\* C17: toc.ncx has one navPoint per entry of tocEntries, in the order of
\* tocEntries, and the playOrder of the k-th navPoint is k, with or without
\* the contents page
C17_PlayOrder ==
  (pc = "firefox" /\ fxPc = "done") =>
    /\ Len(fxPacker.tocNcx) = Len(fxPacker.tocEntries)
    /\ \A k \in DOMAIN fxPacker.tocNcx :
         /\ fxPacker.tocNcx[k].id = fxPacker.tocEntries[k].id
         /\ fxPacker.tocNcx[k].playOrder = k

\* the manifest items whose file is under Images/
ImageHrefItems == SelectSeq(packer.manifestItems, LAMBDA item : StartsWith(item.href, Str_Images_))

\* C18: addImageToManifest with an archive path that is already registered
\* changes nothing in the packer (manifest, image id counter, stored files),
\* and every image path is the href of at most one manifest item
C18_RegisteredPathSkipped ==
  /\ [](pc = "api" =>
          \A j, k \in DOMAIN ImageHrefItems : j < k => ImageHrefItems[j].href # ImageHrefItems[k].href)
  /\ [][(/\ pc = "api"
          /\ ops' # ops
          /\ lastCall'.op = "addImageToManifest"
          /\ lastArg' \in packer.usedImagePaths) => packer' = packer]_vars

\* a second addImageToManifest call for a path, made after another image
C18_Witness ==
  ~(/\ pc = "api"
    /\ lastCall.op = "addImageToManifest"
    /\ ~lastCall.changed
    /\ lastArg \in packer.usedImagePaths
    /\ Len(ImageHrefItems) >= 2)

\* the manifest items addImageToManifest registered
ImageItems == SelectSeq(packer.manifestItems, LAMBDA item : StartsWith(item.id, Str_img_))

\* the markup of the k-th selected post, as the parser has it
PostContent(k) == (CHOOSE p \in postCache : p.id = selectedPostStubs[k].id).content

\* a finished run of three chapters: post 1 has the image of one URL twice,
\* post 3 has it once, and every fetch of it succeeded
SharedImageRun ==
  /\ pc = "done"
  /\ Len(selectedPostStubs) = 3
  /\ Len(chapterHtml) = 3
  /\ SelectedIds \subseteq CacheIds(postCache)
  /\ PostContent(1) = <<Img(Url_a), Img(Url_a)>>
  /\ PostContent(2) = <<>>
  /\ PostContent(3) = <<Img(Url_a)>>
  /\ \A k \in {1, 3} : \A e \in DOMAIN chapterHtml[k] : ~chapterHtml[k][e].unavailable

\* C19: in that run the archive has exactly one image manifest item for the
\* URL, and the markup of both chapters refers to its archive path
C19_OneSharedEntry ==
  SharedImageRun =>
    /\ Len(ImageItems) = 1
    /\ \E f \in packer.usedImagePaths :
         /\ ImageItems[1].href = Str_Images_ \o f
         /\ \A k \in {1, 3} : \A e \in DOMAIN chapterHtml[k] : chapterHtml[k][e].val = UpImagesRef(f)

Seg_OEBPS == <<"OEBPS">>

Seg_Text == <<"Text">>

\* the archive path a reference of a chapter of OEBPS/Text/ resolves to
ResolveFromText(ref) == RemoveDotSegments(<<Seg_OEBPS, Seg_Text>> \o ref.segs)

\* C20: every reference (img src, a href) that processPostImagesAndContent
\* rewrote resolves, from the chapter's place under OEBPS/Text/, to the path
\* under OEBPS/Images/ of an asset descriptor the same call returned
C20_RewrittenResolves ==
  pc = "normalized" =>
    \A k \in DOMAIN nresult.updatedHtml :
      nresult.updatedHtml[k].val # npost.content[k].val =>
        \E d \in DOMAIN nresult.imagesToPackage :
          ResolveFromText(nresult.updatedHtml[k].val)
            = <<Seg_OEBPS, Seg_Images, nresult.imagesToPackage[d].fileNameInEpub>>

\* C21: sanitizeHtmlContent(sanitizeHtmlContent(s)) = sanitizeHtmlContent(s)
\* for every markup string s
C21_SanitizeIdempotent ==
  (pc = "sanitizer" /\ Len(sanitizedRuns) = 2) => sanitizedRuns[2] = sanitizedRuns[1]

\* C22: at most one generateKemonoEpub run is in progress on a page
C22_OneRunAtATime ==
  pc = "page" => Cardinality({i \in DOMAIN runs : runs[i].pc = "generating"}) <= 1

\* the part of C22 that is about the selection page
SelectionOneRun ==
  (pc = "page" /\ page.kind = "selection") => Len(runs) <= 1

\* C28: once every loadPostsPage call has settled, allFetchedPosts holds
\* only posts that were fetched under the current filter
C28_OnlyCurrentFilter ==
  (pc = "page" /\ page.kind = "selection" /\ loads = <<>>)
    => \A x \in Range(page.allFetchedPosts) : x.under = page.currentFilter

\* the pack action can be taken: packEpubButton is displayed and enabled
PackActionEnabled == page.mainContentSectionsWrapper /\ ~page.packEpubButton

\* C30: every run started by handlePackEpub is followed by a state with
\* isPacking false and the pack action enabled again
C30_PackingEnds ==
  (pc = "page" /\ page.kind = "selection" /\ page.isPacking)
    ~> (~page.isPacking /\ PackActionEnabled)

\* the part of C30 that is about isPacking alone
PackingFlagCleared ==
  (pc = "page" /\ page.kind = "selection" /\ page.isPacking) ~> ~page.isPacking

\* C23: a fetchPostFullData call whose detail response lacks an id throws;
\* a call that throws leaves postCache as it was; no detail without an id
\* is in postCache or is returned
C23_MalformedNeverCached ==
  /\ [](pc = "parser" =>
         /\ (fetched.asked /\ LacksId(PostDetailOf(fetched.response))) => fetched.threw
         /\ \A entry \in postCache : ~LacksId(entry.detail)
         /\ (fetched # NoFetch /\ ~fetched.threw) => ~LacksId(fetched.value))
  /\ [][(pc = "parser" /\ fetched'.threw) => postCache' = postCache]_vars

\* a call threw on a response without an id while another detail is cached
C23_Witness ==
  ~(pc = "parser" /\ fetched.threw /\ ~fetched.response.failed
      /\ LacksId(PostDetailOf(fetched.response)) /\ postCache # {})

\* C24: no step of a run of the second generator removes a manifest item or
\* a spine entry of the EpubPacker
C24_NothingRemoved ==
  [][(pc \in {"v2_cover", "v2_posts", "v2_pack"}) =>
       (Range(packer.manifestItems) \subseteq Range(packer'.manifestItems)
          /\ Range(packer.spineOrder) \subseteq Range(packer'.spineOrder))]_vars

\* the number of places of a sequence that hold x
Occurrences(arr, x) == Cardinality({k \in DOMAIN arr : arr[k] = x})

\* C25: in the packer and in content.opf, every spine idref is the id of
\* exactly one manifest item, and every page of the manifest (cover page,
\* contents page, chapter) is in the spine exactly once
C25_SpineMatchesManifest ==
  pc \in {"cover", "posts", "pack", "done", "aborted", "api"} =>
    LET ids == [j \in DOMAIN OpfManifest(packer) |-> OpfManifest(packer)[j].id]
    IN  /\ \A k \in DOMAIN packer.spineOrder : Occurrences(ids, packer.spineOrder[k]) = 1
        /\ \A j \in DOMAIN packer.manifestItems :
              packer.manifestItems[j].mediaType = XhtmlType
                => Occurrences(packer.spineOrder, packer.manifestItems[j].id) = 1

\* a finished run with a cover page, a contents page and two chapters
C25_Witness ==
  ~(pc = "done" /\ Includes(packer.spineOrder, Str_cover_xhtml)
      /\ Includes(packer.spineOrder, Str_toc) /\ Len(packer.spineOrder) >= 4)

\* the chapter items of the manifest of the background.js packer
BgChapterItems == {it \in Range(packer.manifestItems) : IsChapterId(it.id)}

\* C26: after n addChapter calls the manifest holds n distinct chapter ids
\* and the archive n distinct chapter files
C26_ChaptersDistinct ==
  pc \in {"bg_posts", "bg_done"} =>
    /\ Cardinality({it.id : it \in BgChapterItems}) = packer.fileCounter
    /\ Cardinality({it.href : it \in BgChapterItems}) = packer.fileCounter

\* C27: content.opf of version 3.0 has exactly one manifest item with the
\* nav property
C27_OneNavItem ==
  (pc = "bg_done" /\ packer.epubVersion = "3.0") =>
    Cardinality({k \in DOMAIN packer.opf : packer.opf[k].properties = "nav"}) = 1


\* the promise returned to the caller has settled
Settled(c) == callers[c].pc \in {"released", "rejected"}

\* C29: with the promise chain, every caller that has called is eventually
\* released, unless its own slot rejects; no caller is released while a
\* caller that called before it is still queued or waiting; and a caller
\* queued behind a slot that rejected still gets its turn.
C29_EveryCallerReleased ==
  /\ \A c \in CallerIds : (callers[c].pc \in {"queued", "waiting"}) ~> Settled(c)
  /\ [](\A b, c \in CallerIds : (b < c /\ callers[c].pc = "released") => Settled(b))
  /\ \A b, c \in CallerIds :
       (b < c /\ callers[b].pc = "rejected" /\ callers[c].pc = "queued")
         ~> (callers[c].pc # "queued")

\* the second caller called while the first one was in the queue, the slot
\* of the first one rejected, and the second one has been released
C29_Witness ==
  ~(/\ pc = "limiter"
    /\ callers[1].pc = "rejected"
    /\ callers[2].pc = "released"
    /\ callers[2].overlapped)

====
